---- MODULE Spec2Model ----
(***************************************************************************)
(* Z-TEAM server (src/server.js): the authoritative simulation ServerGame, *)
(* the session layer GameRoom and the Node timers they schedule.           *)
(*                                                                         *)
(* Units.  Lengths are pixels on the arena's x axis: the model is the      *)
(* projection of the arena on that axis, with positions tracked to the     *)
(* resolution of the sample points Grid (a tick moves a moving entity to   *)
(* the adjacent sample point in its direction of travel, or leaves it on   *)
(* the one it is on).  Hit points of players are counted in tenths (the    *)
(* code subtracts 0.5 and 0.8).  Delays are counted in tick periods of     *)
(* 1000/60 ms (500 ms are 30 of them).                                     *)
(* An angle is 0 (facing +x) or 180 (facing -x) degrees.                   *)
(***************************************************************************)
EXTENDS Integers, Sequences, FiniteSets, TLC

VARIABLES
    game,      \* the ServerGame object (its fields)
    timers,    \* Node's pending one-shot timers, in scheduling order
    intervals, \* Node's active intervals that call tick(), and how many of
               \* them have run in the present tick period
    room,      \* the GameRoom object (its fields)
    net,       \* what the server has emitted, and the sockets' devices
    hist       \* history of the run, for stating the properties

vars == <<game, timers, intervals, room, net, hist>>

(***************************************************************************)
(* Shared constants (src/unnamed/part_000, shared/game-constants.js)       *)
(***************************************************************************)
CANVAS_W == 1334
WALL == 6
PLAYER_SIZE == 28
MAX_PLAYERS == 4
BULLET_SIZE == 6
MYSTERY_BOX_COST == 950
BOX_USE_RANGE == 120
VENDING_BASE_COST == 500
VENDING_COST_STEP == 50
VENDING_HEAL_AMOUNT == 250
VENDING_USE_RANGE == 120
MELEE_DAMAGE == 1
MELEE_RANGE == 55
MELEE_ARC == 108
REVIVE_RADIUS == 40
REVIVE_TIME == 180
GRACE_PERIOD_MS == 1800
BOMBER_BLAST_RADIUS == 80
BOMBER_PLAYER_DAMAGE == 200
BOMBER_CHAIN_DEPTH == 3

PLAYER_SPAWNS == <<80, 1254, 80, 1254>>

WEAPONS ==
    [pistol     |-> [damage |-> 1,  fireRate |-> 10, ammoCapacity |-> 30,  rarity |-> "none"],
     smg        |-> [damage |-> 1,  fireRate |-> 5,  ammoCapacity |-> 60,  rarity |-> "common"],
     shotgun    |-> [damage |-> 3,  fireRate |-> 20, ammoCapacity |-> 24,  rarity |-> "common"],
     ar         |-> [damage |-> 2,  fireRate |-> 7,  ammoCapacity |-> 45,  rarity |-> "rare"],
     lmg        |-> [damage |-> 2,  fireRate |-> 8,  ammoCapacity |-> 100, rarity |-> "rare"],
     raygun     |-> [damage |-> 5,  fireRate |-> 12, ammoCapacity |-> 20,  rarity |-> "legendary"],
     thundergun |-> [damage |-> 10, fireRate |-> 30, ammoCapacity |-> 8,   rarity |-> "legendary"]]

ZOMBIE_TYPES ==
    [regular |-> [size |-> 28, hp |-> 2, points |-> 60],
     runner  |-> [size |-> 20, hp |-> 1, points |-> 80],
     tank    |-> [size |-> 40, hp |-> 8, points |-> 150],
     bomber  |-> [size |-> 26, hp |-> 2, points |-> 100]]

BOSS_TYPES == <<"triangle", "octagon", "pentagon", "diamond", "spiral", "fractal">>

BOSS_CONFIGS ==
    [triangle |-> [radius |-> 90, pad |-> 125, count |-> 3, hp |-> 5],
     octagon  |-> [radius |-> 80, pad |-> 90,  count |-> 8, hp |-> 3],
     pentagon |-> [radius |-> 85, pad |-> 110, count |-> 5, hp |-> 8],
     diamond  |-> [radius |-> 75, pad |-> 85,  count |-> 0, hp |-> 0],
     spiral   |-> [radius |-> 70, pad |-> 140, count |-> 5, hp |-> 4],
     fractal  |-> [radius |-> 95, pad |-> 130, count |-> 0, hp |-> 0]]

DIAMOND_CORE_HP == 20
DIAMOND_SHARD_HP == 6
DIAMOND_SHARD_RADIUS == 38
DIAMOND_SHARD_PAD == 48
DIAMOND_SHARD_COUNT == 4
OCTAGON_SHOOT_INTERVAL == 60
SPIRAL_SHOOT_INTERVAL == 40
FRACTAL_PIECE_HP == 8
FRACTAL_SPLIT_THRESHOLD == 30
FRACTAL_SPLIT_COUNT == 3

(***************************************************************************)
(* Server-only constants and literals (src/server.js)                      *)
(***************************************************************************)
BROADCAST_EVERY == 3
PLAYER_MAX_HP == 1000
PLAYER_START_AMMO == 30
REVIVE_HP == 500
ZOMBIE_CONTACT_DAMAGE == 5
PIECE_CONTACT_DAMAGE == 8
BOSS_TOUCH_DAMAGE == 10
BOSS_KILL_BONUS == 1000
HEALTH_PACK_HEAL == 300
PICKUP_RANGE == 10
BOSS_HIT_RADIUS == 22
BOSS_DROP_Y == -120
BOSS_DROP_TARGET == 375
WAVE_DELAY == 180
SPAWN_GAP == 30
BOSS_ENTRY_DELAY == 120
BOSS_CLEAR_DELAY == 48
BOX_RESPAWN_DELAY == 60
READY_COUNTDOWN == 5
COUNTDOWN_PERIOD == 60
BOX_MARGIN == 100
VENDING_MARGIN == 160
VENDING_BOX_GAP == 200
BOMBER_MIN_WAVE == 5

\* p.ammo = Infinity (unlimited); savedAmmo = undefined; a null object field
Infinity == 999999
Undefined == -1
Null == -1000

(***************************************************************************)
(* Bounds of the model                                                     *)
(***************************************************************************)
MaxZombies == 3     \* zombies alive at once
MaxBullets == 2     \* bullets in flight at once
MaxPacks == 1       \* ammo packs, and health packs, lying in the arena
MaxPart == 3        \* highest storage index of a shard or piece a bullet reaches

\* The sample points of the x axis.
Grid == {80, 140, 667, 1254}

Slots == 1..MAX_PLAYERS
MaxDevices == 5      \* devices, each with its fingerprint
MaxSockets == 5      \* connections the server accepts in a run
RoomDevices == 2     \* devices that come and go in a room that never fills
RoomSockets == 4     \* connections of a room that never fills
MaxTimers == 14
MaxPoints == 3000
MaxVendingCost == 700
MaxHorde == 6
MaxIntervals == 2
Devices == 1..MaxDevices
Sids == 1..MaxSockets

(***************************************************************************)
(* Arithmetic and sequences                                                *)
(***************************************************************************)
Abs(a) == IF a < 0 THEN -a ELSE a
Min(a, b) == IF a < b THEN a ELSE b
Max(a, b) == IF a > b THEN a ELSE b
\* Math.ceil(a / b) and Math.floor(a / b), b > 0
CeilDiv(a, b) == -((-a) \div b)

\* Array.prototype.splice(i, 1) at the 0-based index i: no element is removed
\* when i is not an index of the array.
Splice(s, i) ==
    IF i < 0 \/ i >= Len(s) THEN s
    ELSE SubSeq(s, 1, i) \o SubSeq(s, i + 2, Len(s))

\* Math.sqrt(dx*dx+dy*dy) on the x axis
Dist(a, b) == Abs(a - b)

\* The sample point next to x in direction dir (1, -1), or the point just
\* outside the arena when x is the last one.
NextX(x, dir) ==
    IF dir > 0
    THEN IF \E y \in Grid : y > x
         THEN CHOOSE y \in Grid : y > x /\ \A y2 \in Grid : y2 > x => y <= y2
         ELSE CANVAS_W + 1
    ELSE IF dir < 0
    THEN IF \E y \in Grid : y < x
         THEN CHOOSE y \in Grid : y < x /\ \A y2 \in Grid : y2 < x => y >= y2
         ELSE -1
    ELSE x

(***************************************************************************)
(* ServerGame: constructor                                                 *)
(***************************************************************************)
NoBoss == [type |-> "null"]

NewPlayer(i) ==
    [slot |-> i, x |-> PLAYER_SPAWNS[i], vx |-> 0, angle |-> 0,
     hp |-> PLAYER_MAX_HP, maxHp |-> PLAYER_MAX_HP, ammo |-> PLAYER_START_AMMO,
     points |-> 0, currentWeapon |-> "pistol", alive |-> TRUE, connected |-> FALSE,
     firing |-> FALSE, fireCooldown |-> 0, meleeing |-> FALSE, meleeCooldown |-> 0,
     savedAmmo |-> Undefined]

NewServerGame ==
    [players |-> [i \in Slots |-> NewPlayer(i)],
     zombies |-> <<>>, bullets |-> <<>>, ammoPacks |-> <<>>, healthPacks |-> <<>>,
     wave |-> 1, waveTotal |-> 0, waveKilled |-> 0,
     gameOver |-> FALSE, gameStarted |-> FALSE,
     isBossWave |-> FALSE, boss |-> NoBoss, mysteryBox |-> Null,
     vendingMachine |-> Null, vendingCost |-> VENDING_BASE_COST,
     reviveMap |-> [i \in Slots |-> [targetSlot |-> 0, elapsed |-> 0]],
     tickInterval |-> FALSE, explosions |-> 0,
     waveAdvancing |-> FALSE, broadcastTick |-> 0]

\* The history of a run.
NoHist ==
    [advances |-> 0,          \* wave++ executed since startWave last ran
     asked |-> 0,             \* calls of _advanceWave() since startWave last ran
     firedEmpty |-> FALSE,    \* a bullet was fired from an empty magazine
     advancedDirty |-> FALSE, \* wave++ was executed with a zombie or a boss present
     gameOverSent |-> 0,      \* 'game-over' broadcasts of this match
     error |-> FALSE,         \* a callback threw (a TypeError): the process is gone
     staleRan |-> FALSE,      \* a timer set before a restart() ran after it
     blastDepth |-> 0,        \* the greatest chain depth at which a blast was performed
     afterDestroy |-> FALSE,  \* a callback of the room ran after destroy()
     request |-> [kind |-> "none", alive |-> FALSE, present |-> FALSE, near |-> FALSE,
                  afford |-> FALSE, hurt |-> FALSE, cost |-> 0, paid |-> 0,
                  changed |-> FALSE, respawns |-> 0],  \* the last purchase request
     grace |-> [d \in Devices |-> [slot |-> 0, points |-> 0,
                                   weapon |-> "pistol"]],  \* the last disconnect of a device
     rejoin |-> [within |-> FALSE, same |-> FALSE],        \* the last join of a device
     refused |-> {},          \* the sockets 'join-failed' (Room is full) was emitted to
     bystander |-> FALSE]     \* a bullet was removed that had not left the arena nor hit

\* The world a callback runs in: the game, the pending timers, the active
\* tick intervals and the history.
World(g, t, iv, h) == [g |-> g, t |-> t, iv |-> iv, h |-> h]

(***************************************************************************)
(* Node timers                                                             *)
(***************************************************************************)
\* setTimeout(fn, delay): kind names fn, arg is what its closure holds; reg
\* says whether the handle was pushed on this._waveTimers.  stale marks a
\* timer that was pending when restart() ran (history).
SetTimeoutArg(t, kind, delay, reg, arg) ==
    Append(t, [kind |-> kind, due |-> delay, reg |-> reg, arg |-> arg, stale |-> FALSE])

SetTimeout(t, kind, delay, reg) == SetTimeoutArg(t, kind, delay, reg, 0)

\* _scheduleWave(fn, delay)
ScheduleWave(w, kind, delay) ==
    [w EXCEPT !.t = SetTimeout(w.t, kind, delay, TRUE)]

\* this._waveTimers.forEach(t => clearTimeout(t)); this._waveTimers = []
ClearWaveTimers(t) == SelectSeq(t, LAMBDA e : ~e.reg)

(***************************************************************************)
(* ServerGame: waves                                                       *)
(***************************************************************************)
\* _advanceWave() without its guard
AdvanceWave_Unguarded(w) ==
    LET w1 == [w EXCEPT !.g.waveAdvancing = TRUE,
                        !.g.wave = w.g.wave + 1,
                        !.h.asked = Min(2, w.h.asked + 1),
                        !.h.advances = w.h.advances + 1,
                        !.h.advancedDirty =
                            w.h.advancedDirty \/ w.g.zombies # <<>> \/ w.g.boss # NoBoss]
    IN ScheduleWave(w1, "startWave", WAVE_DELAY)

\* _advanceWave()
AdvanceWave(w) ==
    IF w.g.waveAdvancing THEN [w EXCEPT !.h.asked = Min(2, w.h.asked + 1)]
    ELSE LET w1 == [w EXCEPT !.g.waveAdvancing = TRUE,
                             !.g.wave = w.g.wave + 1,
                             !.h.asked = Min(2, w.h.asked + 1),
                             !.h.advances = w.h.advances + 1,
                             !.h.advancedDirty =
                                 w.h.advancedDirty \/ w.g.zombies # <<>> \/ w.g.boss # NoBoss]
         IN ScheduleWave(w1, "startWave", WAVE_DELAY)

\* the test every kill path makes before it calls _advanceWave()
WaveCleared(g) ==
    g.waveKilled >= g.waveTotal /\ g.zombies = <<>> /\ g.boss = NoBoss

MaybeAdvanceWave(w) == IF WaveCleared(w.g) THEN AdvanceWave(w) ELSE w

\* this.players.filter(p => p.connected).length
ConnectedCount(g) == Cardinality({i \in Slots : g.players[i].connected})

\* spawnMysteryBox(), the position drawn being x
SpawnMysteryBox(g, x) == [g EXCEPT !.mysteryBox = x]

BoxXs == {x \in Grid : x >= BOX_MARGIN /\ x <= CANVAS_W - BOX_MARGIN}

\* The positions spawnVendingMachine() can produce: inside the margin and,
\* as long as one of the draws lands there, at least 200 away from the box.
VendingXs(g) ==
    LET inside == {x \in Grid : x >= VENDING_MARGIN /\ x <= CANVAS_W - VENDING_MARGIN}
        clear == {x \in inside : g.mysteryBox = Null \/ Dist(x, g.mysteryBox) >= VENDING_BOX_GAP}
    IN IF clear # {} THEN clear ELSE inside

\* spawnVendingMachine(), the position drawn being x
SpawnVendingMachine(g, x) ==
    IF g.isBossWave THEN [g EXCEPT !.vendingMachine = Null]
    ELSE [g EXCEPT !.vendingMachine = x]

\* startWave() line 188: ammo is saved and made unlimited
SaveAmmo(p) ==
    IF ~p.connected THEN p
    ELSE [p EXCEPT !.savedAmmo = p.ammo, !.ammo = Infinity]

\* startWave() line 196: ammo is restored
RestoreAmmo(p) ==
    IF ~p.connected \/ p.savedAmmo = Undefined THEN p
    ELSE [p EXCEPT !.ammo = Max(p.savedAmmo, WEAPONS[p.currentWeapon].ammoCapacity \div 2),
                   !.savedAmmo = Undefined]

\* Math.ceil(baseCount * (pc / 2))
WaveQuota(wave, pc) == CeilDiv((3 + (wave - 1) * 2) * pc, 2)

RECURSIVE ScheduleSpawns(_, _, _)
ScheduleSpawns(w, i, n) ==
    IF i >= n THEN w
    ELSE ScheduleSpawns(ScheduleWave(w, "spawnZombie", i * SPAWN_GAP), i + 1, n)

\* startWave() without the removal of the vending machine (line 189)
StartWave_KeepsVending(w, vx) ==
    LET g == w.g
        pc == Max(1, ConnectedCount(g))
        g0 == [g EXCEPT !.waveAdvancing = FALSE, !.waveKilled = 0]
        w0 == [w EXCEPT !.h.advances = 0, !.h.asked = 0]
    IN IF g.wave % 5 = 0
       THEN LET g1 == [g0 EXCEPT !.isBossWave = TRUE, !.waveTotal = 1,
                                 !.players = [i \in Slots |-> SaveAmmo(g.players[i])]]
            IN ScheduleWave([w0 EXCEPT !.g = g1], "spawnBoss", BOSS_ENTRY_DELAY)
       ELSE LET g1 == [g0 EXCEPT !.isBossWave = FALSE,
                                 !.players = [i \in Slots |-> RestoreAmmo(g.players[i])]]
                g2 == SpawnVendingMachine(g1, vx)
                g3 == [g2 EXCEPT !.waveTotal = WaveQuota(g.wave, pc)]
            IN ScheduleSpawns([w0 EXCEPT !.g = g3], 0, g3.waveTotal)

\* startWave(); vx is the position drawn for the vending machine
StartWave(w, vx) ==
    LET g == w.g
        pc == Max(1, ConnectedCount(g))
        g0 == [g EXCEPT !.waveAdvancing = FALSE, !.waveKilled = 0]
        w0 == [w EXCEPT !.h.advances = 0, !.h.asked = 0]
    IN IF g.wave % 5 = 0
       THEN LET g1 == [g0 EXCEPT !.isBossWave = TRUE, !.waveTotal = 1,
                                 !.players = [i \in Slots |-> SaveAmmo(g.players[i])],
                                 !.vendingMachine = Null]
            IN ScheduleWave([w0 EXCEPT !.g = g1], "spawnBoss", BOSS_ENTRY_DELAY)
       ELSE LET g1 == [g0 EXCEPT !.isBossWave = FALSE,
                                 !.players = [i \in Slots |-> RestoreAmmo(g.players[i])]]
                g2 == SpawnVendingMachine(g1, vx)
                g3 == [g2 EXCEPT !.waveTotal = WaveQuota(g.wave, pc)]
            IN ScheduleSpawns([w0 EXCEPT !.g = g3], 0, g3.waveTotal)

\* getBossType() without the "- 1"
BossTypeIndex_NoShift(wave) ==
    LET k == wave \div 5
    IN IF k < 0 THEN -1 ELSE k % Len(BOSS_TYPES)

\* getBossType(): the 0-based index into BOSS_TYPES; a negative index (a wave
\* below 5) names no boss type.
BossTypeIndex(wave) ==
    LET k == (wave - 5) \div 5
    IN IF k < 0 THEN -1 ELSE k % Len(BOSS_TYPES)

MkParts(n, hp) == [i \in 1..n |-> [hp |-> hp, maxHp |-> hp]]

\* spawnBoss()
SpawnBoss(w) ==
    LET k == BossTypeIndex(w.g.wave)
    IN IF k < 0 THEN [w EXCEPT !.h.error = TRUE]
       ELSE LET type == BOSS_TYPES[k + 1]
                cfg == BOSS_CONFIGS[type]
                b == [type |-> type, x |-> CANVAS_W \div 2, y |-> BOSS_DROP_Y, dropping |-> TRUE,
                      dropTarget |-> BOSS_DROP_TARGET,
                      vx |-> 1, flashTimer |-> 0, dead |-> FALSE,
                      bossBullets |-> <<>>, shootTimer |-> 0,
                      radius |-> cfg.radius, pad |-> cfg.pad,
                      parts |-> MkParts(cfg.count, cfg.hp),
                      coreHp |-> IF type = "diamond" THEN DIAMOND_CORE_HP ELSE 0,
                      split |-> FALSE, shards |-> <<>>,
                      pieces |-> IF type = "fractal"
                                 THEN <<[x |-> CANVAS_W \div 2, vx |-> 1, hp |-> FRACTAL_PIECE_HP,
                                         maxHp |-> FRACTAL_PIECE_HP, radius |-> cfg.radius,
                                         alive |-> TRUE]>>
                                 ELSE <<>>]
            IN [w EXCEPT !.g.boss = b]

\* spawnZombie(), the position and the type drawn being x and type
SpawnZombie(g, x, type) ==
    [g EXCEPT !.zombies = Append(g.zombies,
        [x |-> x, type |-> type, hp |-> ZOMBIE_TYPES[type].hp,
         size |-> ZOMBIE_TYPES[type].size, points |-> ZOMBIE_TYPES[type].points])]

\* rollZombieType(): the types with a positive weight
ZombieTypesAt(wave) ==
    {"regular", "runner", "tank"} \cup (IF wave > BOMBER_MIN_WAVE THEN {"bomber"} ELSE {})

(***************************************************************************)
(* ServerGame: damage to players                                           *)
(***************************************************************************)
\* checkGameOver()
CheckGameOver(w) ==
    IF \E i \in Slots : w.g.players[i].alive /\ w.g.players[i].connected THEN w
    ELSE [w EXCEPT !.g.gameOver = TRUE, !.h.gameOverSent = Min(w.h.gameOverSent + 1, 2)]

\* The damage without the call of checkGameOver()
HurtPlayer_NoCheck(w, i, dmg) ==
    LET p == w.g.players[i]
        hp == p.hp - dmg
    IN IF hp <= 0 /\ p.alive
       THEN [w EXCEPT !.g.players[i].hp = 0, !.g.players[i].alive = FALSE]
       ELSE [w EXCEPT !.g.players[i].hp = hp]

\* The damage without p.hp = 0 at the death
HurtPlayer_NoClamp(w, i, dmg) ==
    LET p == w.g.players[i]
        hp == p.hp - dmg
    IN IF hp <= 0 /\ p.alive
       THEN CheckGameOver([w EXCEPT !.g.players[i].hp = hp, !.g.players[i].alive = FALSE])
       ELSE [w EXCEPT !.g.players[i].hp = hp]

\* p.hp -= dmg; if (p.hp <= 0 && p.alive) { p.alive = false; p.hp = 0; this.checkGameOver(); }
HurtPlayer(w, i, dmg) ==
    LET p == w.g.players[i]
        hp == p.hp - dmg
    IN IF hp <= 0 /\ p.alive
       THEN CheckGameOver([w EXCEPT !.g.players[i].hp = 0, !.g.players[i].alive = FALSE])
       ELSE [w EXCEPT !.g.players[i].hp = hp]

\* The living connected player nearest to x, the lowest slot among equals
\* (the loops update near only on d < nd); 0 when there is none.
Nearest(g, x) ==
    LET ok == {i \in Slots : g.players[i].alive /\ g.players[i].connected}
    IN IF ok = {} THEN 0
       ELSE CHOOSE i \in ok : \A k \in ok :
                \/ Dist(g.players[i].x, x) < Dist(g.players[k].x, x)
                \/ Dist(g.players[i].x, x) = Dist(g.players[k].x, x) /\ i <= k

(***************************************************************************)
(* ServerGame: triggerBomberExplosion                                      *)
(***************************************************************************)
RECURSIVE BlastPlayers(_, _, _)
BlastPlayers(w, bx, i) ==
    IF i > MAX_PLAYERS THEN w
    ELSE LET p == w.g.players[i]
         IN IF p.alive /\ p.connected
               /\ Dist(p.x, bx) < BOMBER_BLAST_RADIUS + PLAYER_SIZE \div 2
            THEN BlastPlayers(HurtPlayer(w, i, BOMBER_PLAYER_DAMAGE), bx, i + 1)
            ELSE BlastPlayers(w, bx, i + 1)

\* toKill: the 0-based indices of the zombies inside the blast, highest first
RECURSIVE ToKill(_, _, _)
ToKill(zs, bx, i) ==
    IF i < 0 THEN <<>>
    ELSE IF Dist(zs[i + 1].x, bx) < BOMBER_BLAST_RADIUS + zs[i + 1].size \div 2
         THEN <<i>> \o ToKill(zs, bx, i - 1)
         ELSE ToKill(zs, bx, i - 1)

\* the positions of the bombers among toKill
RECURSIVE Chains(_, _, _)
Chains(zs, tk, k) ==
    IF k > Len(tk) THEN <<>>
    ELSE IF zs[tk[k] + 1].type = "bomber"
         THEN <<zs[tk[k] + 1].x>> \o Chains(zs, tk, k + 1)
         ELSE Chains(zs, tk, k + 1)

\* for (const {idx, z} of toKill) { explosions.push; zombies.splice(idx,1); waveKilled++; ... }
RECURSIVE KillBlasted(_, _, _)
KillBlasted(w, tk, k) ==
    IF k > Len(tk) THEN w
    ELSE LET w1 == [w EXCEPT !.g.explosions = @ + 1,
                             !.g.zombies = Splice(w.g.zombies, tk[k]),
                             !.g.waveKilled = @ + 1]
         IN KillBlasted(MaybeAdvanceWave(w1), tk, k + 1)

RECURSIVE TriggerBomberExplosion(_, _, _)
RECURSIVE ExplodeChains(_, _, _, _)
\* The explosion without the test of the depth
TriggerBomberExplosion_NoDepthLimit(w, bx, depth) ==
    LET w1 == [w EXCEPT !.g.explosions = @ + 1, !.h.blastDepth = Max(@, depth)]
        w2 == BlastPlayers(w1, bx, 1)
        tk == ToKill(w2.g.zombies, bx, Len(w2.g.zombies) - 1)
        ch == Chains(w2.g.zombies, tk, 1)
        w3 == KillBlasted(w2, tk, 1)
    IN ExplodeChains(w3, ch, 1, depth + 1)

\* triggerBomberExplosion(bx, by, depth)
TriggerBomberExplosion(w, bx, depth) ==
    IF depth > BOMBER_CHAIN_DEPTH THEN w
    ELSE LET w1 == [w EXCEPT !.g.explosions = @ + 1, !.h.blastDepth = Max(@, depth)]
             w2 == BlastPlayers(w1, bx, 1)
             tk == ToKill(w2.g.zombies, bx, Len(w2.g.zombies) - 1)
             ch == Chains(w2.g.zombies, tk, 1)
             w3 == KillBlasted(w2, tk, 1)
         IN ExplodeChains(w3, ch, 1, depth + 1)

\* for (const pos of chains) this.triggerBomberExplosion(pos.x, pos.y, depth+1)
ExplodeChains(w, ch, k, depth) ==
    IF k > Len(ch) THEN w
    ELSE ExplodeChains(TriggerBomberExplosion(w, ch[k], depth), ch, k + 1, depth)

(***************************************************************************)
(* ServerGame: the boss's hit points                                       *)
(***************************************************************************)
\* The alive elements of shards or pieces, each with its storage index
\* (reduce with realIdx, lines 230 and 238).
RECURSIVE AliveWithIndex(_, _)
\* The alive elements, each with its index among the alive ones
AliveWithIndex_Filtered(parts, i) ==
    LET alive == SelectSeq(parts, LAMBDA s : s.alive)
    IN [k \in 1..Len(alive) |-> [x |-> alive[k].x, idx |-> k - 1, piece |-> FALSE, radius |-> 0]]

AliveWithIndex(parts, i) ==
    IF i >= Len(parts) THEN <<>>
    ELSE IF parts[i + 1].alive
         THEN <<[x |-> parts[i + 1].x, idx |-> i, piece |-> FALSE, radius |-> 0]>>
              \o AliveWithIndex(parts, i + 1)
         ELSE AliveWithIndex(parts, i + 1)

\* getBossHitPoints(): the hit points in the order the code lists them.  The
\* offset of a tip, corner, panel or arm from the boss's centre is below the
\* resolution of Grid.
GetBossHitPoints(g) ==
    LET b == g.boss
    IN IF b = NoBoss THEN <<>>
       ELSE IF b.type \in {"triangle", "octagon", "pentagon", "spiral"}
       THEN [i \in 1..Len(b.parts) |-> [x |-> b.x, idx |-> i - 1, piece |-> FALSE, radius |-> 0]]
       ELSE IF b.type = "diamond"
       THEN IF ~b.split THEN <<[x |-> b.x, idx |-> 0, piece |-> FALSE, radius |-> 0]>>
            ELSE AliveWithIndex(b.shards, 0)
       ELSE LET pts == AliveWithIndex(b.pieces, 0)
            IN [k \in 1..Len(pts) |->
                   [pts[k] EXCEPT !.piece = TRUE, !.radius = b.pieces[pts[k].idx + 1].radius]]

\* _damageBossHitPoint(pt, amount)
DamageBossHitPoint(g, pt, amount) ==
    LET b == g.boss
        k == pt.idx + 1
    IN IF b = NoBoss THEN g
       ELSE LET b1 == [b EXCEPT !.flashTimer = 6]
            IN IF b.type \in {"triangle", "octagon", "pentagon", "spiral"}
               THEN [g EXCEPT !.boss = [b1 EXCEPT !.parts[k].hp = Max(0, @ - amount)]]
               ELSE IF b.type = "diamond"
               THEN IF ~b.split
                    THEN [g EXCEPT !.boss = [b1 EXCEPT !.coreHp = Max(0, @ - amount)]]
                    ELSE IF k > Len(b.shards) THEN [g EXCEPT !.boss = b1]
                    ELSE LET hp == Max(0, b.shards[k].hp - amount)
                         IN [g EXCEPT !.boss =
                                [b1 EXCEPT !.shards[k].hp = hp,
                                           !.shards[k].alive = IF hp <= 0 THEN FALSE ELSE @]]
               ELSE IF k > Len(b.pieces) THEN [g EXCEPT !.boss = b1]
               ELSE [g EXCEPT !.boss = [b1 EXCEPT !.pieces[k].hp = Max(0, @ - amount)]]

\* hitR of the bullet loop (line 478): Dist < hitR
InBulletReach(bx, pt) ==
    IF pt.piece THEN Dist(bx, pt.x) * 10 < Min(pt.radius * 6, 300)
    ELSE Dist(bx, pt.x) < BOSS_HIT_RADIUS

(***************************************************************************)
(* ServerGame: tick, the players                                           *)
(*                                                                         *)
(* What a tick draws is its input in: stepP, stepZ, stepB, stepBoss say    *)
(* whether the moving players, zombies, bullets and boss parts reach the   *)
(* next sample point in this tick; ammoDrop and healthDrop are the         *)
(* outcomes of Math.random() < AMMO_DROP_CHANCE, HEALTH_DROP_CHANCE; near  *)
(* is the set of storage indices of the boss sub-parts whose hit point is  *)
(* within reach of a bullet or a swing that is at the sub-part's sample    *)
(* point (the rotation of the boss is below the resolution of Grid).       *)
(***************************************************************************)
\* A zombie death's drops after a bullet kill (line 468)
BulletDrops(g, x, in) ==
    [g EXCEPT !.ammoPacks = IF in.ammoDrop THEN Append(@, x) ELSE @,
              !.healthPacks = IF in.healthDrop THEN Append(@, x) ELSE @]

\* A zombie death's drops after a melee kill (lines 390-391)
MeleeDrops(g, x, in) ==
    [g EXCEPT !.ammoPacks = Append(@, x),
              !.healthPacks = IF in.healthDrop THEN Append(@, x) ELSE @]

\* Math.cos(angle) for the two angles of the model
Cos(angle) == IF angle = 0 THEN 1 ELSE -1

\* fireBullet(p)
FireBullet(g, i) ==
    LET p == g.players[i]
    IN [g EXCEPT !.bullets = Append(@, [x |-> p.x, dir |-> Cos(p.angle),
                                        damage |-> WEAPONS[p.currentWeapon].damage]),
                 !.players[i].ammo = IF p.ammo # Infinity THEN p.ammo - 1 ELSE p.ammo]

\* Math.atan2(dy, dx) - p.angle wrapped into [-180, 180], in absolute value
AngleOff(dx, angle) ==
    LET at == IF dx < 0 THEN 180 ELSE 0
        ad == at - angle
    IN Abs(IF ad > 180 THEN ad - 360 ELSE IF ad < -180 THEN ad + 360 ELSE ad)

\* The zombie loop of performMelee(p), from index j down to 0.  zombies[j] is
\* undefined when an explosion has shortened the list below j: z.x throws.
RECURSIVE MeleeZombies(_, _, _, _)
MeleeZombies(w, i, j, in) ==
    IF j < 0 \/ w.h.error THEN w
    ELSE IF j >= Len(w.g.zombies) THEN [w EXCEPT !.h.error = TRUE]
    ELSE LET p == w.g.players[i]
             z == w.g.zombies[j + 1]
         IN IF Dist(z.x, p.x) > MELEE_RANGE + z.size \div 2
               \/ AngleOff(z.x - p.x, p.angle) * 2 > MELEE_ARC
            THEN MeleeZombies(w, i, j - 1, in)
            ELSE IF z.hp - MELEE_DAMAGE > 0
            THEN MeleeZombies([w EXCEPT !.g.zombies[j + 1].hp = @ - MELEE_DAMAGE], i, j - 1, in)
            ELSE LET g1 == [w.g EXCEPT !.zombies[j + 1].hp = @ - MELEE_DAMAGE,
                                       !.players[i].points = @ + z.points]
                     g2 == [MeleeDrops(g1, z.x, in) EXCEPT !.explosions = @ + 1]
                     w2 == [w EXCEPT !.g = g2]
                     w3 == IF z.type = "bomber" THEN TriggerBomberExplosion(w2, z.x, 0) ELSE w2
                     w4 == [w3 EXCEPT !.g.zombies = Splice(@, j), !.g.waveKilled = @ + 1]
                 IN MeleeZombies(MaybeAdvanceWave(w4), i, j - 1, in)

\* The boss loop of performMelee(p): every hit point in range and arc is hit
RECURSIVE MeleeBoss(_, _, _, _, _)
MeleeBoss(g, i, pts, k, in) ==
    IF k > Len(pts) THEN g
    ELSE LET p == g.players[i]
             pt == pts[k]
         IN IF Dist(pt.x, p.x) > MELEE_RANGE + 20 \/ pt.idx \notin in.near
               \/ AngleOff(pt.x - p.x, p.angle) * 2 > MELEE_ARC
            THEN MeleeBoss(g, i, pts, k + 1, in)
            ELSE MeleeBoss(DamageBossHitPoint(g, pt, MELEE_DAMAGE), i, pts, k + 1, in)

\* performMelee(p)
PerformMelee(w, i, in) ==
    LET w1 == [w EXCEPT !.g.explosions = @ + 1]
        w2 == MeleeZombies(w1, i, Len(w1.g.zombies) - 1, in)
        b == w2.g.boss
    IN IF w2.h.error THEN w2
       ELSE IF b # NoBoss /\ ~b.dead /\ ~b.dropping
       THEN [w2 EXCEPT !.g = MeleeBoss(w2.g, i, GetBossHitPoints(w2.g), 1, in)]
       ELSE w2

\* p.x = Math.max(clamp, Math.min(CANVAS_W - clamp, p.x + p.vx)): the player
\* stays on its sample point when the next one is beyond the clamp.
MovePlayer(p, in) ==
    LET clamp == PLAYER_SIZE \div 2 + WALL
        nx == IF in.stepP THEN NextX(p.x, p.vx) ELSE p.x
    IN IF nx < clamp \/ nx > CANVAS_W - clamp THEN p.x ELSE nx

\* The test of line 456 without its ammo part
CanFire_AnyAmmo(p) ==
    p.firing /\ p.fireCooldown <= 0

\* The test of line 456 that lets a player shoot
CanFire(p) ==
    p.firing /\ (p.ammo > 0 \/ p.ammo = Infinity) /\ p.fireCooldown <= 0

\* The player loop of tick() (lines 451-458).  A cooldown is only ever
\* tested with <= 0: it is stored saturated at 0.
RECURSIVE TickPlayers(_, _, _)
TickPlayers(w, i, in) ==
    IF i > MAX_PLAYERS \/ w.h.error THEN w
    ELSE LET p == w.g.players[i]
         IN IF ~p.connected \/ ~p.alive THEN TickPlayers(w, i + 1, in)
            ELSE LET weapon == WEAPONS[p.currentWeapon]
                     g1 == [w.g EXCEPT !.players[i].x = MovePlayer(p, in),
                                       !.players[i].fireCooldown = Max(0, @ - 1),
                                       !.players[i].meleeCooldown = Max(0, @ - 1)]
                     p1 == g1.players[i]
                     g2 == IF CanFire(p1)
                           THEN [FireBullet(g1, i) EXCEPT !.players[i].fireCooldown = weapon.fireRate]
                           ELSE g1
                     p2 == g2.players[i]
                     w2 == [w EXCEPT !.g = g2,
                                     !.h.firedEmpty = @ \/ (CanFire(p1) /\ p1.ammo <= 0)]
                     w3 == IF p2.meleeing /\ p2.ammo = 0 /\ p2.ammo # Infinity
                              /\ p2.meleeCooldown <= 0
                           THEN LET wm == PerformMelee(w2, i, in)
                                IN IF wm.h.error THEN wm
                                   ELSE [wm EXCEPT !.g.players[i].meleeCooldown = 1]
                           ELSE w2
                 IN TickPlayers(w3, i + 1, in)

(***************************************************************************)
(* ServerGame: tick, the bullets                                           *)
(***************************************************************************)
\* The inner zombie loop (line 464): the highest index of a zombie the bullet
\* at x touches, -1 when it touches none.
RECURSIVE FirstHit(_, _, _)
FirstHit(zs, x, j) ==
    IF j < 0 THEN -1
    ELSE IF Dist(x, zs[j + 1].x) < zs[j + 1].size \div 2 + BULLET_SIZE \div 2 THEN j
    ELSE FirstHit(zs, x, j - 1)

\* The first hit point, in the order of getBossHitPoints(), the bullet at x
\* is within hitR of; 0 when there is none.
RECURSIVE FirstPoint(_, _, _, _)
FirstPoint(pts, x, k, in) ==
    IF k > Len(pts) THEN 0
    ELSE IF InBulletReach(x, pts[k]) /\ pts[k].idx \in in.near THEN k
    ELSE FirstPoint(pts, x, k + 1, in)

\* The body of the if at line 468 paying the first player
BulletKill_PaysFirst(w, j, in) ==
    LET z == w.g.zombies[j + 1]
        g1 == [w.g EXCEPT !.players[1].points = @ + z.points]
        g2 == [BulletDrops(g1, z.x, in) EXCEPT !.explosions = @ + 1]
        w2 == [w EXCEPT !.g = g2]
        w3 == IF z.type = "bomber" THEN TriggerBomberExplosion(w2, z.x, 0) ELSE w2
        w4 == [w3 EXCEPT !.g.zombies = Splice(@, j), !.g.waveKilled = @ + 1]
    IN MaybeAdvanceWave(w4)

\* The body of the if at line 468: the zombie at index j has died by a bullet
BulletKill(w, j, in) ==
    LET z == w.g.zombies[j + 1]
        near == Nearest(w.g, z.x)
        g1 == IF near # 0 THEN [w.g EXCEPT !.players[near].points = @ + z.points] ELSE w.g
        g2 == [BulletDrops(g1, z.x, in) EXCEPT !.explosions = @ + 1]
        w2 == [w EXCEPT !.g = g2]
        w3 == IF z.type = "bomber" THEN TriggerBomberExplosion(w2, z.x, 0) ELSE w2
        w4 == [w3 EXCEPT !.g.zombies = Splice(@, j), !.g.waveKilled = @ + 1]
    IN MaybeAdvanceWave(w4)

\* The bullet loop of tick() (lines 460-483), from index i down to 0
RECURSIVE TickBullets(_, _, _)
TickBullets(w, i, in) ==
    IF i < 0 THEN w
    ELSE LET b == w.g.bullets[i + 1]
             nx == IF in.stepB THEN NextX(b.x, b.dir) ELSE b.x
             w1 == [w EXCEPT !.g.bullets[i + 1].x = nx]
         IN IF nx < 0 \/ nx > CANVAS_W
            THEN TickBullets([w1 EXCEPT !.g.bullets = Splice(@, i)], i - 1, in)
            ELSE LET j == FirstHit(w1.g.zombies, nx, Len(w1.g.zombies) - 1)
                 IN IF j >= 0
                    THEN LET w2 == [w1 EXCEPT !.g.zombies[j + 1].hp = @ - b.damage]
                             w3 == IF w2.g.zombies[j + 1].hp <= 0 THEN BulletKill(w2, j, in) ELSE w2
                         IN TickBullets([w3 EXCEPT !.g.bullets = Splice(@, i)], i - 1, in)
                    ELSE LET bs == w1.g.boss
                             pts == GetBossHitPoints(w1.g)
                             k == IF bs # NoBoss /\ ~bs.dead /\ ~bs.dropping
                                  THEN FirstPoint(pts, nx, 1, in) ELSE 0
                         IN IF k = 0 THEN TickBullets(w1, i - 1, in)
                            ELSE LET g2 == DamageBossHitPoint(w1.g, pts[k], b.damage)
                                     \* splice at line 479, and again at line 482
                                     g3 == [g2 EXCEPT !.bullets = Splice(Splice(@, i), i)]
                                     also == Len(g3.bullets) < Len(g2.bullets) - 1
                                 IN TickBullets([w1 EXCEPT !.g = g3,
                                                           !.h.bystander = @ \/ also],
                                                i - 1, in)

(***************************************************************************)
(* ServerGame: tick, zombies, pickups, revive                              *)
(***************************************************************************)
Sign(a) == IF a > 0 THEN 1 ELSE IF a < 0 THEN -1 ELSE 0

\* The zombie loop of tick() (lines 485-492)
RECURSIVE TickZombies(_, _, _)
TickZombies(w, k, in) ==
    IF k > Len(w.g.zombies) THEN w
    ELSE LET z == w.g.zombies[k]
             near == Nearest(w.g, z.x)
         IN IF near = 0 THEN TickZombies(w, k + 1, in)
            ELSE LET px == w.g.players[near].x
                     nx == IF in.stepZ THEN NextX(z.x, Sign(px - z.x)) ELSE z.x
                     w1 == [w EXCEPT !.g.zombies[k].x = nx]
                 IN IF Dist(px, nx) < z.size \div 2 + PLAYER_SIZE \div 2
                    THEN TickZombies(HurtPlayer(w1, near, ZOMBIE_CONTACT_DAMAGE), k + 1, in)
                    ELSE TickZombies(w1, k + 1, in)

\* The first player, in slot order, that is alive and within pickup range of
\* x (lines 494-495 test p.alive only); 0 when there is none.
Picker(g, x) ==
    LET ok == {i \in Slots : g.players[i].alive
                  /\ Dist(g.players[i].x, x) < PLAYER_SIZE \div 2 + PICKUP_RANGE}
    IN IF ok = {} THEN 0 ELSE CHOOSE i \in ok : \A k \in ok : i <= k

\* The ammo pack loop (line 494), from index i down to 0
RECURSIVE TickAmmoPacks(_, _)
TickAmmoPacks(g, i) ==
    IF i < 0 THEN g
    ELSE LET k == Picker(g, g.ammoPacks[i + 1])
         IN IF k = 0 THEN TickAmmoPacks(g, i - 1)
            ELSE LET p == g.players[k]
                     g1 == IF p.ammo # Infinity
                           THEN [g EXCEPT !.players[k].ammo =
                                    @ + WEAPONS[p.currentWeapon].ammoCapacity \div 2]
                           ELSE g
                 IN TickAmmoPacks([g1 EXCEPT !.ammoPacks = Splice(@, i)], i - 1)

\* The health pack loop (line 495), from index i down to 0
RECURSIVE TickHealthPacks(_, _)
TickHealthPacks(g, i) ==
    IF i < 0 THEN g
    ELSE LET k == Picker(g, g.healthPacks[i + 1])
         IN IF k = 0 THEN TickHealthPacks(g, i - 1)
            ELSE TickHealthPacks(
                     [g EXCEPT !.players[k].hp = Min(g.players[k].maxHp, @ + HEALTH_PACK_HEAL),
                               !.healthPacks = Splice(@, i)], i - 1)

NoAttempt == [targetSlot |-> 0, elapsed |-> 0]

\* The first downed connected player, in slot order, within REVIVE_RADIUS of
\* the reviver r; 0 when there is none.
ReviveTarget(g, r) ==
    LET ok == {i \in Slots : ~g.players[i].alive /\ g.players[i].connected /\ i # r
                  /\ Dist(g.players[i].x, g.players[r].x) <= REVIVE_RADIUS}
    IN IF ok = {} THEN 0 ELSE CHOOSE i \in ok : \A k \in ok : i <= k

\* updateRevive(): an attempt holds the time elapsed since its startTime
RECURSIVE UpdateRevive(_, _)
UpdateRevive(g, r) ==
    IF r > MAX_PLAYERS THEN g
    ELSE LET p == g.players[r]
             t == ReviveTarget(g, r)
             att == g.reviveMap[r]
         IN IF ~p.alive \/ ~p.connected \/ t = 0
            THEN UpdateRevive([g EXCEPT !.reviveMap[r] = NoAttempt], r + 1)
            ELSE IF att.targetSlot # t
            THEN UpdateRevive([g EXCEPT !.reviveMap[r] = [targetSlot |-> t, elapsed |-> 0]], r + 1)
            ELSE IF att.elapsed >= REVIVE_TIME
            THEN UpdateRevive([g EXCEPT !.players[t].alive = TRUE, !.players[t].hp = REVIVE_HP,
                                        !.reviveMap[r] = NoAttempt], r + 1)
            ELSE UpdateRevive(g, r + 1)

(***************************************************************************)
(* ServerGame: updateBoss                                                  *)
(***************************************************************************)
RECURSIVE PushPacks(_, _, _)
PushPacks(packs, x, n) == IF n <= 0 THEN packs ELSE PushPacks(Append(packs, x), x, n - 1)

\* _bossKill(b); dc, the number of ammo packs, is drawn by the tick
BossKill(w, in) ==
    LET g == w.g
        g1 == [g EXCEPT
                  !.boss.dead = TRUE,
                  !.players = [i \in Slots |->
                      IF g.players[i].alive /\ g.players[i].connected
                      THEN [g.players[i] EXCEPT !.points = @ + BOSS_KILL_BONUS,
                                                !.hp = g.players[i].maxHp]
                      ELSE g.players[i]],
                  !.ammoPacks = PushPacks(@, g.boss.x, in.dc),
                  !.explosions = @ + 1]
    IN ScheduleWave([w EXCEPT !.g = g1], "bossClear", BOSS_CLEAR_DELAY)

\* The callback _bossKill schedules (line 260)
BossClear(w) == AdvanceWave([w EXCEPT !.g.boss = NoBoss])

\* The wall bounce of _bounceBox(b) and of the shard and piece loops: the
\* position and the velocity after the move.  A part that would leave the
\* padded box stays on its sample point and turns.
Bounce(x, vx, pad, step) ==
    LET nx == IF step THEN NextX(x, vx) ELSE x
    IN IF nx - pad < WALL THEN [x |-> x, vx |-> Abs(vx)]
       ELSE IF nx + pad > CANVAS_W - WALL THEN [x |-> x, vx |-> -Abs(vx)]
       ELSE [x |-> nx, vx |-> vx]

\* The player loops that deal contact damage (lines 263-269, 332, 348)
RECURSIVE TouchDamage(_, _, _, _, _)
TouchDamage(w, x, reach, dmg, i) ==
    IF i > MAX_PLAYERS THEN w
    ELSE LET p == w.g.players[i]
         IN IF p.alive /\ p.connected /\ Dist(p.x, x) < reach + PLAYER_SIZE \div 2
            THEN TouchDamage(HurtPlayer(w, i, dmg), x, reach, dmg, i + 1)
            ELSE TouchDamage(w, x, reach, dmg, i + 1)

\* The first living connected player, in slot order, a boss bullet at x hits
BulletVictim(g, x) ==
    LET ok == {i \in Slots : g.players[i].alive /\ g.players[i].connected
                  /\ Dist(g.players[i].x, x) < PLAYER_SIZE \div 2 + 5}
    IN IF ok = {} THEN 0 ELSE CHOOSE i \in ok : \A k \in ok : i <= k

\* The boss bullet loop (lines 298-306), from index i down to 0
RECURSIVE TickBossBullets(_, _, _)
TickBossBullets(w, i, in) ==
    IF i < 0 THEN w
    ELSE LET bb == w.g.boss.bossBullets[i + 1]
             nx == IF in.stepB THEN NextX(bb.x, bb.dir) ELSE bb.x
             w1 == [w EXCEPT !.g.boss.bossBullets[i + 1].x = nx,
                             !.g.boss.bossBullets[i + 1].life = @ - 1]
             v == BulletVictim(w1.g, nx)
         IN IF bb.life - 1 <= 0 \/ nx < 0 \/ nx > CANVAS_W
            THEN TickBossBullets([w1 EXCEPT !.g.boss.bossBullets = Splice(@, i)], i - 1, in)
            ELSE IF v # 0
            THEN TickBossBullets(
                     HurtPlayer([w1 EXCEPT !.g.boss.bossBullets = Splice(@, i)], v, bb.damage),
                     i - 1, in)
            ELSE TickBossBullets(w1, i - 1, in)

\* The sign of Math.cos(k * step degrees): the x direction of the k-th
\* projectile of a volley, the boss's rotation taken as 0
CosSign(k, n) ==
    LET deg == (k * 360) \div n
    IN IF deg < 90 \/ deg > 270 THEN 1 ELSE IF deg = 90 \/ deg = 270 THEN 0 ELSE -1

\* corners.forEach of the octagon's volley (line 314)
RECURSIVE OctagonVolley(_, _)
OctagonVolley(b, k) ==
    IF k >= Len(b.parts) THEN b
    ELSE IF b.parts[k + 1].hp <= 0 THEN OctagonVolley(b, k + 1)
    ELSE OctagonVolley([b EXCEPT !.bossBullets = Append(@,
             [x |-> b.x, dir |-> CosSign(k, 8), damage |-> 80, life |-> 120])], k + 1)

\* the spiral's volley (line 339)
RECURSIVE SpiralVolley(_, _)
SpiralVolley(b, k) ==
    IF k >= 5 THEN b
    ELSE SpiralVolley([b EXCEPT !.bossBullets = Append(@,
             [x |-> b.x, dir |-> CosSign(k, 5), damage |-> 100, life |-> 100])], k + 1)

AllPartsDead(b) == \A k \in 1..Len(b.parts) : b.parts[k].hp <= 0

\* The nearest sample point to x (the lower one among equals)
Snap(x) ==
    CHOOSE y \in Grid : \A y2 \in Grid :
        Dist(y, x) < Dist(y2, x) \/ (Dist(y, x) = Dist(y2, x) /\ y <= y2)

RECURSIVE SumX(_, _)
SumX(parts, k) == IF k > Len(parts) THEN 0 ELSE parts[k].x + SumX(parts, k + 1)

\* The shard loop of the split diamond (lines 328-333)
RECURSIVE TickShards(_, _, _)
TickShards(w, k, in) ==
    IF k > Len(w.g.boss.shards) THEN w
    ELSE LET sh == w.g.boss.shards[k]
         IN IF ~sh.alive THEN TickShards(w, k + 1, in)
            ELSE LET m == Bounce(sh.x, sh.vx, DIAMOND_SHARD_PAD, in.stepBoss)
                     w1 == [w EXCEPT !.g.boss.shards[k].x = m.x, !.g.boss.shards[k].vx = m.vx]
                 IN TickShards(TouchDamage(w1, m.x, DIAMOND_SHARD_RADIUS, PIECE_CONTACT_DAMAGE, 1),
                               k + 1, in)

\* The children of line 350 with the radius of the piece they come from
RECURSIVE SplitPiece_SameRadius(_, _, _)
SplitPiece_SameRadius(pieces, piece, i) ==
    IF i >= FRACTAL_SPLIT_COUNT THEN pieces
    ELSE SplitPiece_SameRadius(Append(pieces,
             [x |-> piece.x, vx |-> CosSign(i, FRACTAL_SPLIT_COUNT),
              hp |-> CeilDiv(piece.maxHp * 6, 10), maxHp |-> CeilDiv(piece.maxHp * 6, 10),
              radius |-> piece.radius, alive |-> TRUE]), piece, i + 1)

\* The children a dying piece splits into (line 350): Math.round(radius *
\* 0.55) and Math.ceil(maxHp * 0.6)
RECURSIVE SplitPiece(_, _, _)
SplitPiece(pieces, piece, i) ==
    IF i >= FRACTAL_SPLIT_COUNT THEN pieces
    ELSE SplitPiece(Append(pieces,
             [x |-> piece.x, vx |-> CosSign(i, FRACTAL_SPLIT_COUNT),
              hp |-> CeilDiv(piece.maxHp * 6, 10), maxHp |-> CeilDiv(piece.maxHp * 6, 10),
              radius |-> (piece.radius * 55 + 50) \div 100, alive |-> TRUE]), piece, i + 1)

\* The piece loop of the fractal (lines 343-351): for..of also visits the
\* pieces pushed during the loop
RECURSIVE TickPieces(_, _, _)
TickPieces(w, k, in) ==
    IF k > Len(w.g.boss.pieces) THEN w
    ELSE LET pc == w.g.boss.pieces[k]
         IN IF ~pc.alive THEN TickPieces(w, k + 1, in)
            ELSE LET m == Bounce(pc.x, pc.vx, pc.radius + 10, in.stepBoss)
                     w1 == [w EXCEPT !.g.boss.pieces[k].x = m.x, !.g.boss.pieces[k].vx = m.vx]
                     w2 == TouchDamage(w1, m.x, pc.radius, PIECE_CONTACT_DAMAGE, 1)
                     pc2 == w2.g.boss.pieces[k]
                     w3 == IF pc2.hp <= 0
                           THEN [w2 EXCEPT !.g.explosions = @ + 1,
                                           !.g.boss.pieces =
                                               LET dead == [@ EXCEPT ![k].alive = FALSE]
                                               IN IF pc2.radius > FRACTAL_SPLIT_THRESHOLD
                                                  THEN SplitPiece(dead, pc2, 0) ELSE dead]
                           ELSE w2
                 IN TickPieces(w3, k + 1, in)

\* updateBoss(): the boss moves and bounces off the walls (_bounceBox, lines 247-251)
MoveBoss(w, in) ==
    LET b == w.g.boss
        m == Bounce(b.x, b.vx, b.pad, in.stepBoss)
    IN [w EXCEPT !.g.boss = [b EXCEPT !.x = m.x, !.vx = m.vx]]

\* updateBoss(): the body of the boss, of radius r, hurts who it touches
BodyTouch(w, r) == TouchDamage(w, w.g.boss.x, r, BOSS_TOUCH_DAMAGE, 1)

\* updateBoss(): the boss whose parts are all destroyed is killed
KillIfDone(w, in) ==
    IF AllPartsDead(w.g.boss) /\ ~w.g.boss.dead THEN BossKill(w, in) ELSE w

\* updateBoss(): the shoot timer of the octagon
ShootOctagon(w) ==
    LET b == w.g.boss
    IN [w EXCEPT !.g.boss = IF b.shootTimer + 1 >= OCTAGON_SHOOT_INTERVAL
                            THEN OctagonVolley([b EXCEPT !.shootTimer = 0], 0)
                            ELSE [b EXCEPT !.shootTimer = @ + 1]]

\* updateBoss(): the shoot timer of the spiral
ShootSpiral(w) ==
    LET b == w.g.boss
    IN [w EXCEPT !.g.boss = IF b.shootTimer + 1 >= SPIRAL_SHOOT_INTERVAL
                            THEN SpiralVolley([b EXCEPT !.shootTimer = 0], 0)
                            ELSE [b EXCEPT !.shootTimer = @ + 1]]

\* updateBoss(): the diamond whose core is destroyed splits into shards
SplitDiamond(w) ==
    LET b == w.g.boss
    IN IF b.coreHp <= 0 /\ ~b.dead
       THEN [w EXCEPT !.g.boss.split = TRUE,
                      !.g.boss.shards =
                          [k \in 1..DIAMOND_SHARD_COUNT |->
                              [x |-> b.x,
                               vx |-> CosSign(k - 1, DIAMOND_SHARD_COUNT),
                               hp |-> DIAMOND_SHARD_HP,
                               maxHp |-> DIAMOND_SHARD_HP, alive |-> TRUE]]]
       ELSE w

\* The same without the test of b.dead (line 335)
ShardsMoved_NoDeadTest(w, in) ==
    LET b == w.g.boss
    IN IF \A k \in 1..Len(b.shards) : ~b.shards[k].alive
       THEN BossKill([w EXCEPT !.g.boss.x = Snap(SumX(b.shards, 1) \div 4)], in)
       ELSE [w EXCEPT !.g.boss.x = Snap(SumX(b.shards, 1) \div 4)]

\* updateBoss(): the split diamond stands at the mean of its shards and is
\* killed when none is alive
ShardsMoved(w, in) ==
    LET b == w.g.boss
    IN IF (\A k \in 1..Len(b.shards) : ~b.shards[k].alive) /\ ~b.dead
       THEN BossKill([w EXCEPT !.g.boss.x = Snap(SumX(b.shards, 1) \div 4)], in)
       ELSE [w EXCEPT !.g.boss.x = Snap(SumX(b.shards, 1) \div 4)]

\* updateBoss(): the fractal stands at the mean of its living pieces
CentrePieces(w) ==
    LET alive == SelectSeq(w.g.boss.pieces, LAMBDA q : q.alive)
    IN IF Len(alive) > 0
       THEN [w EXCEPT !.g.boss.x = Snap(SumX(alive, 1) \div Len(alive))]
       ELSE w

\* updateBoss(): the fractal is killed when no piece is alive
PiecesMoved(w, in) ==
    IF (\A k \in 1..Len(w.g.boss.pieces) : ~w.g.boss.pieces[k].alive) /\ ~w.g.boss.dead
    THEN BossKill(w, in) ELSE w

\* updateBoss() after the boss bullets have moved, by boss type
UpdateBossByType(w, in) ==
    LET b == w.g.boss
    IN IF b.type \in {"triangle", "pentagon"}
       THEN KillIfDone(BodyTouch(MoveBoss(w, in), b.radius), in)
       ELSE IF b.type = "octagon"
       THEN KillIfDone(ShootOctagon(BodyTouch(MoveBoss(w, in), b.radius)), in)
       ELSE IF b.type = "spiral"
       THEN KillIfDone(ShootSpiral(BodyTouch(MoveBoss(w, in), b.radius + 10)), in)
       ELSE IF b.type = "diamond"
       THEN IF ~b.split
            THEN SplitDiamond(BodyTouch(MoveBoss(w, in), b.radius))
            ELSE ShardsMoved(TickShards(w, 1, in), in)
       ELSE PiecesMoved(CentrePieces(TickPieces(w, 1, in)), in)

\* updateBoss() without the branch of line 295
UpdateBoss_NoDropBranch(w, in) ==
    LET b == w.g.boss
    IN IF b = NoBoss THEN w
       ELSE UpdateBossByType(
                TickBossBullets([w EXCEPT !.g.boss.flashTimer = IF @ > 0 THEN @ - 1 ELSE @],
                                Len(b.bossBullets) - 1, in), in)

\* updateBoss()
UpdateBoss(w, in) ==
    LET b == w.g.boss
    IN IF b = NoBoss THEN w
       ELSE IF b.dropping
       THEN LET y == IF in.stepBoss THEN BOSS_DROP_TARGET ELSE b.y
            IN [w EXCEPT !.g.boss.y = y, !.g.boss.dropping = ~(y >= b.dropTarget)]
       ELSE UpdateBossByType(
                TickBossBullets([w EXCEPT !.g.boss.flashTimer = IF @ > 0 THEN @ - 1 ELSE @],
                                Len(b.bossBullets) - 1, in), in)

(***************************************************************************)
(* ServerGame: tick                                                        *)
(***************************************************************************)
\* tick(): the broadcast counter (lines 502-506)
CountBroadcast(w) ==
    [w EXCEPT !.g.broadcastTick = IF @ + 1 >= BROADCAST_EVERY THEN 0 ELSE @ + 1]

\* tick(): the pack loops and updateRevive() (lines 494-497)
TickPacks(g) ==
    UpdateRevive(TickHealthPacks(TickAmmoPacks(g, Len(g.ammoPacks) - 1),
                                 Len(g.healthPacks) - 1), 1)

\* tick() from the pack loops on; a throw has ended the callback
TickFromPacks(w, in) ==
    IF w.h.error THEN w
    ELSE CountBroadcast(UpdateBoss([w EXCEPT !.g = TickPacks(w.g)], in))

\* tick() from the zombie loop on (line 485)
TickFromZombies(w, in) ==
    IF w.h.error THEN w ELSE TickFromPacks(TickZombies(w, 1, in), in)

\* tick() from the bullet loop on (line 460)
TickFromBullets(w, in) ==
    IF w.h.error THEN w ELSE TickFromZombies(TickBullets(w, Len(w.g.bullets) - 1, in), in)

\* tick(): the state after the callback has run
TickBody(w, in) ==
    IF w.g.gameOver \/ ~w.g.gameStarted THEN w
    ELSE TickFromBullets(TickPlayers([w EXCEPT !.g.explosions = 0], 1, in), in)

(***************************************************************************)
(* ServerGame: start, stop, restart and the request handlers               *)
(***************************************************************************)
\* start(); bx and vx are the positions drawn for the box and the vending
\* machine.  setInterval adds an active interval; the handle of one that is
\* still active is overwritten.
Start(w, bx, vx) ==
    LET g1 == SpawnVendingMachine(SpawnMysteryBox(w.g, bx), vx)
        w1 == StartWave([w EXCEPT !.g = g1], vx)
    IN [w1 EXCEPT !.g.tickInterval = TRUE, !.iv.active = @ + 1]

\* stop()
Stop(w) ==
    IF w.g.tickInterval THEN [w EXCEPT !.g.tickInterval = FALSE, !.iv.active = @ - 1] ELSE w

\* The player loop of restart() without the reset of alive and hp
ResetPlayer_StaysDown(p) ==
    [p EXCEPT !.x = PLAYER_SPAWNS[p.slot], !.vx = 0, !.angle = 0,
              !.ammo = PLAYER_START_AMMO, !.points = 0, !.currentWeapon = "pistol",
              !.firing = FALSE, !.fireCooldown = 0, !.meleeing = FALSE,
              !.meleeCooldown = 0, !.savedAmmo = Undefined]

\* The player loop of restart() (lines 95-100)
ResetPlayer(p) ==
    [p EXCEPT !.x = PLAYER_SPAWNS[p.slot], !.vx = 0, !.angle = 0, !.hp = PLAYER_MAX_HP,
              !.ammo = PLAYER_START_AMMO, !.points = 0, !.currentWeapon = "pistol",
              !.alive = TRUE, !.firing = FALSE, !.fireCooldown = 0, !.meleeing = FALSE,
              !.meleeCooldown = 0, !.savedAmmo = Undefined]

MarkStale(t) == [k \in 1..Len(t) |-> [t[k] EXCEPT !.stale = TRUE]]

\* restart()
Restart(w, bx, vx) ==
    LET w1 == Stop(w)
        g == w1.g
        g2 == [g EXCEPT !.zombies = <<>>, !.bullets = <<>>, !.ammoPacks = <<>>,
                        !.healthPacks = <<>>, !.wave = 1, !.waveTotal = 0, !.waveKilled = 0,
                        !.gameOver = FALSE, !.isBossWave = FALSE, !.boss = NoBoss,
                        !.vendingMachine = Null, !.vendingCost = VENDING_BASE_COST,
                        !.reviveMap = [i \in Slots |-> NoAttempt], !.explosions = 0,
                        !.waveAdvancing = FALSE, !.broadcastTick = 0,
                        !.players = [i \in Slots |-> ResetPlayer(g.players[i])]]
        w2 == [w1 EXCEPT !.g = SpawnMysteryBox(g2, bx),
                         !.t = MarkStale(ClearWaveTimers(w1.t)),
                         !.h.gameOverSent = 0, !.h.advances = 0, !.h.asked = 0]
    IN Start(w2, bx, vx)

\* handleInput(slot, input) without the test of p.alive
HandleInput_NoAliveTest(g, slot, input) ==
    IF slot \notin Slots THEN g
    ELSE [g EXCEPT !.players[slot].vx = IF input.angle # Null THEN Cos(input.angle) ELSE 0,
                   !.players[slot].angle = IF input.angle # Null THEN input.angle ELSE @,
                   !.players[slot].firing = input.fire,
                   !.players[slot].meleeing = input.melee]

\* handleInput(slot, input): input.angle is Null, 0 or 180
HandleInput(g, slot, input) ==
    IF slot \notin Slots \/ ~g.players[slot].alive THEN g
    ELSE [g EXCEPT !.players[slot].vx = IF input.angle # Null THEN Cos(input.angle) ELSE 0,
                   !.players[slot].angle = IF input.angle # Null THEN input.angle ELSE @,
                   !.players[slot].firing = input.fire,
                   !.players[slot].meleeing = input.melee]

\* The guards of handleMysteryBox(slot) without the test of the points
CanBuyBox_AnyPoints(g, slot) ==
    /\ slot \in Slots
    /\ g.players[slot].alive
    /\ g.mysteryBox # Null
    /\ ~(Dist(g.players[slot].x, g.mysteryBox) > BOX_USE_RANGE)

\* The guards of handleMysteryBox(slot) (lines 124-126)
CanBuyBox(g, slot) ==
    /\ slot \in Slots
    /\ g.players[slot].alive
    /\ g.mysteryBox # Null
    /\ ~(Dist(g.players[slot].x, g.mysteryBox) > BOX_USE_RANGE)
    /\ ~(g.players[slot].points < MYSTERY_BOX_COST)

\* rollRandomWeapon(): the weapons that have a rarity tier
BoxWeapons == {"smg", "shotgun", "ar", "lmg", "raygun", "thundergun"}

\* Object.keys(WEAPONS), in the order of the table
WeaponKeys == <<"pistol", "smg", "shotgun", "ar", "lmg", "raygun", "thundergun">>

\* Object.keys(WEAPONS).filter(k => WEAPONS[k].rarity === rarity)
OfRarity(rarity) == SelectSeq(WeaponKeys, LAMBDA k : WEAPONS[k].rarity = rarity)

\* rollRandomWeapon(): roll is Math.floor of the first draw times 100, pick
\* the index that the second draw makes of the list's length
RollRandomWeapon(roll, pick) ==
    LET l == IF roll < 10 THEN OfRarity("legendary")
             ELSE IF roll < 40 THEN OfRarity("rare")
             ELSE OfRarity("common")
    IN l[(pick % Len(l)) + 1]

\* handleMysteryBox(slot) adding the capacity to the ammo in hand
HandleMysteryBox_AddsAmmo(w, slot, weapon) ==
    IF ~CanBuyBox(w.g, slot) THEN w
    ELSE [w EXCEPT !.g.players[slot].points = @ - MYSTERY_BOX_COST,
                   !.g.players[slot].currentWeapon = weapon,
                   !.g.players[slot].ammo = Min(Infinity, @ + WEAPONS[weapon].ammoCapacity),
                   !.t = SetTimeout(w.t, "boxRespawn", BOX_RESPAWN_DELAY, FALSE)]

\* handleMysteryBox(slot); weapon is what rollRandomWeapon() returns
HandleMysteryBox(w, slot, weapon) ==
    IF ~CanBuyBox(w.g, slot) THEN w
    ELSE [w EXCEPT !.g.players[slot].points = @ - MYSTERY_BOX_COST,
                   !.g.players[slot].currentWeapon = weapon,
                   !.g.players[slot].ammo = WEAPONS[weapon].ammoCapacity,
                   !.t = SetTimeout(w.t, "boxRespawn", BOX_RESPAWN_DELAY, FALSE)]

\* The guards of handleVendingMachine(slot) (lines 164-168)
CanBuyVending(g, slot) ==
    /\ slot \in Slots
    /\ g.players[slot].alive
    /\ g.vendingMachine # Null
    /\ ~(Dist(g.players[slot].x, g.vendingMachine) > VENDING_USE_RANGE)
    /\ ~(g.players[slot].points < g.vendingCost)
    /\ ~(g.players[slot].hp >= g.players[slot].maxHp)

\* handleVendingMachine(slot) charging the base cost
HandleVendingMachine_BaseCost(g, slot) ==
    IF ~CanBuyVending(g, slot) THEN g
    ELSE [g EXCEPT !.players[slot].points = @ - VENDING_BASE_COST,
                   !.players[slot].hp = Min(g.players[slot].maxHp, @ + VENDING_HEAL_AMOUNT),
                   !.vendingCost = @ + VENDING_COST_STEP]

\* handleVendingMachine(slot) without line 171
HandleVendingMachine_NoRaise(g, slot) ==
    IF ~CanBuyVending(g, slot) THEN g
    ELSE [g EXCEPT !.players[slot].points = @ - g.vendingCost,
                   !.players[slot].hp = Min(g.players[slot].maxHp, @ + VENDING_HEAL_AMOUNT)]

\* handleVendingMachine(slot)
HandleVendingMachine(g, slot) ==
    IF ~CanBuyVending(g, slot) THEN g
    ELSE [g EXCEPT !.players[slot].points = @ - g.vendingCost,
                   !.players[slot].hp = Min(g.players[slot].maxHp, @ + VENDING_HEAL_AMOUNT),
                   !.vendingCost = @ + VENDING_COST_STEP]

(***************************************************************************)
(* The callbacks of the ServerGame as actions                              *)
(***************************************************************************)
Now == World(game, timers, intervals, hist)

Becomes(w) ==
    /\ game' = w.g
    /\ timers' = w.t
    /\ intervals' = w.iv
    /\ hist' = w.h

\* A throw ends the process: nothing runs after it.
Running == ~hist.error

\* The timers run in the order they were set among those that are due.
DueIndex(t) ==
    IF \E k \in 1..Len(t) : t[k].due = 0
    THEN CHOOSE k \in 1..Len(t) : t[k].due = 0 /\ \A j \in 1..(k - 1) : t[j].due # 0
    ELSE 0

RemoveAt(t, k) == [j \in 1..(Len(t) - 1) |-> IF j < k THEN t[j] ELSE t[j + 1]]

GameTimerKinds == {"startWave", "spawnZombie", "spawnBoss", "bossClear", "boxRespawn"}

\* The callback of the timer e: x and type are what it draws.
RunGameTimer(w, e, x, type) ==
    LET w1 == [w EXCEPT !.h.staleRan = @ \/ e.stale]
    IN CASE e.kind = "startWave" -> StartWave(w1, x)
         [] e.kind = "spawnZombie" -> [w1 EXCEPT !.g = SpawnZombie(w1.g, x, type)]
         [] e.kind = "spawnBoss" -> SpawnBoss(w1)
         [] e.kind = "bossClear" -> BossClear(w1)
         [] OTHER -> [w1 EXCEPT !.g = SpawnMysteryBox(w1.g, x)]

\* What a timer of kind k can draw: startWave draws the vending machine's
\* position, boxRespawn the box's, spawnZombie the zombie's with its type.
DrawsOf(g, kind, xs, types) ==
    CASE kind = "startWave" -> VendingXs(g) \X {"regular"}
      [] kind = "boxRespawn" -> BoxXs \X {"regular"}
      [] kind = "spawnZombie" -> xs \X (ZombieTypesAt(g.wave) \cap types)
      [] OTHER -> {80} \X {"regular"}

WithinBounds(w, zcap) ==
    /\ Len(w.g.zombies) <= zcap
    /\ Len(w.g.bullets) <= MaxBullets
    /\ Len(w.t) <= MaxTimers

\* The step to the world w, which is within the bounds
BecomesWithin(w, zcap) == WithinBounds(w, zcap) /\ Becomes(w)

\* A due timer of the game fires: a zombie it spawns stands at one of xs and
\* is of one of types.  The waves after lastWave are not started, and no
\* more than zcap zombies stand.
FireGameTimer(xs, types, lastWave, zcap) ==
    LET k == DueIndex(timers)
    IN /\ Running
       /\ k # 0
       /\ timers[k].kind \in GameTimerKinds
       /\ timers[k].kind = "startWave" => game.wave <= lastWave
       /\ \E d \in DrawsOf(game, timers[k].kind, xs, types) :
             BecomesWithin(RunGameTimer([Now EXCEPT !.t = RemoveAt(timers, k)],
                                        timers[k], d[1], d[2]), zcap)
       /\ UNCHANGED <<room, net>>

\* Time passes by d units: no timer is due before d has passed.
Elapse(g, d) ==
    [g EXCEPT !.reviveMap = [i \in Slots |->
        IF @[i].targetSlot = 0 THEN @[i]
        ELSE [@[i] EXCEPT !.elapsed = Min(REVIVE_TIME, @ + d)]]]

\* The clock moves on by d: no timer is due before, and every active tick
\* interval has run in the present tick period.
Advance(d) ==
    /\ Running
    /\ d > 0
    /\ \A k \in 1..Len(timers) : timers[k].due >= d
    /\ timers' = [k \in 1..Len(timers) |-> [timers[k] EXCEPT !.due = @ - d]]
    /\ game' = Elapse(game, d)
    /\ intervals' = [intervals EXCEPT !.ran = 0]
    /\ UNCHANGED <<room, net, hist>>

\* The next instant at which a timer is due
NextDue ==
    IF timers = <<>> THEN 1
    ELSE CHOOSE d \in {timers[k].due : k \in 1..Len(timers)} :
            \A k \in 1..Len(timers) : d <= timers[k].due

\* The time to the next timer passes
AdvanceLeap ==
    /\ timers # <<>>
    /\ Advance(NextDue)

\* One tick period passes, or with no tick interval the time to the next timer
AdvanceTick ==
    /\ intervals.ran >= intervals.active
    /\ intervals.active > 0 \/ timers # <<>>
    /\ Advance(IF intervals.active > 0 THEN 1 ELSE NextDue)

\* What a run of tick() that leads to w2 may do within the bounds: the
\* packs on the floor do not pile up (the drops of a dead boss apart), the
\* points stay below MaxPoints and no player walks to the right of reach.
Ticked(w2, paced, reach, zcap) ==
    /\ WithinBounds(w2, zcap)
    /\ \/ Len(w2.g.ammoPacks) <= MaxPacks
       \/ Len(w2.g.ammoPacks) <= Len(game.ammoPacks)
       \/ (game.boss # NoBoss /\ w2.g.boss # NoBoss /\ w2.g.boss.dead)
    /\ Len(w2.g.healthPacks) <= MaxPacks
    /\ \A i \in Slots : w2.g.players[i].points <= MaxPoints
    /\ \A i \in Slots : w2.g.players[i].x <= Max(reach, game.players[i].x)
    /\ Becomes([w2 EXCEPT !.iv.ran = IF paced THEN @ + 1 ELSE @])

\* One run of tick() by an active interval.  When paced, each active
\* interval runs once per tick period and after the timers that are due;
\* otherwise any number of runs fits between two timers.
Tick(inputs, paced, reach, zcap) ==
    /\ Running
    /\ intervals.active > 0
    /\ paced => intervals.ran < intervals.active /\ DueIndex(timers) = 0
    /\ \E in \in inputs : Ticked(TickBody(Now, in), paced, reach, zcap)
    /\ UNCHANGED <<room, net>>

\* 'player-input' of a joined player
Input(slots, inputs) ==
    /\ Running
    /\ \E slot \in slots, input \in inputs :
          /\ game.players[slot].connected
          /\ game' = HandleInput(game, slot, input)
    /\ UNCHANGED <<timers, intervals, room, net, hist>>

\* 'restart-vote' of the last joined player who had not voted: restart()
RestartVoted ==
    /\ Running
    /\ \E bx \in BoxXs :
          \E vx \in VendingXs(SpawnMysteryBox(game, bx)) :
             Becomes(Restart(Now, bx, vx))
    /\ UNCHANGED <<room, net>>

\* What the history keeps of a purchase request: the facts before it and
\* what the handler did.
Asked(kind, slot, target, range, cost, w2) ==
    LET p == game.players[slot]
    IN [kind |-> kind, alive |-> p.alive, present |-> target # Null,
        near |-> target = Null \/ Dist(p.x, target) <= range,
        afford |-> p.points >= cost, hurt |-> p.hp < p.maxHp, cost |-> cost,
        paid |-> p.points - w2.g.players[slot].points,
        changed |-> w2 # Now,
        respawns |-> Len(w2.t) - Len(timers)]

\* 'mystery-box-purchase' of a joined player
BoxRequest(slots, weapons) ==
    /\ Running
    /\ \E slot \in slots, weapon \in weapons :
          LET w2 == HandleMysteryBox(Now, slot, weapon)
          IN /\ game.players[slot].connected
             /\ WithinBounds(w2, MaxZombies)
             /\ Becomes([w2 EXCEPT !.h.request =
                    Asked("box", slot, game.mysteryBox, BOX_USE_RANGE, MYSTERY_BOX_COST, w2)])
    /\ UNCHANGED <<room, net>>

\* 'vending-purchase' of a joined player
VendingRequest(slots) ==
    /\ Running
    /\ \E slot \in slots :
          LET w2 == [Now EXCEPT !.g = HandleVendingMachine(game, slot)]
          IN /\ game.players[slot].connected
             /\ game.vendingCost < MaxVendingCost
             /\ Becomes([w2 EXCEPT !.h.request =
                    Asked("vending", slot, game.vendingMachine, VENDING_USE_RANGE,
                          game.vendingCost, w2)])
    /\ UNCHANGED <<room, net>>

(***************************************************************************)
(* A match in progress                                                     *)
(***************************************************************************)
\* The state 3000 ms after _advanceWave() has moved a match to wave wv > 1
\* (the startWave timer is due); pls[i] says how the player of slot i is.
\* After a boss wave the ammo is still unlimited, pls[i].ammo is the saved
\* ammo and there is no vending machine.
MidMatch(wv, pls) ==
    LET boss == (wv - 1) % 5 = 0
        n == Len(pls)
        quota == IF boss THEN 1 ELSE WaveQuota(wv - 1, n)
        player(i) == [NewPlayer(i) EXCEPT
                         !.connected = TRUE, !.points = pls[i].points,
                         !.hp = pls[i].hp, !.alive = pls[i].hp > 0,
                         !.currentWeapon = pls[i].weapon, !.firing = pls[i].firing,
                         !.ammo = IF boss THEN Infinity ELSE pls[i].ammo,
                         !.savedAmmo = IF boss THEN pls[i].ammo ELSE Undefined]
        g == [NewServerGame EXCEPT
                 !.players = [i \in Slots |-> IF i <= n THEN player(i) ELSE NewPlayer(i)],
                 !.gameStarted = TRUE, !.tickInterval = TRUE, !.wave = wv,
                 !.waveTotal = quota, !.waveKilled = quota, !.waveAdvancing = TRUE,
                 !.isBossWave = boss, !.mysteryBox = 140,
                 !.vendingMachine = IF boss THEN Null ELSE 667]
    IN World(g, SetTimeout(<<>>, "startWave", 0, TRUE), [active |-> 1, ran |-> 0],
             [NoHist EXCEPT !.advances = 1, !.asked = 1])

\* new GameRoom(roomCode, mode).  players holds the values of the Map of that
\* name, which is keyed by socketId (connected is true in every entry: an
\* entry that disconnects is deleted); disconnectedPlayers[fp] is the
\* slotNumber of the copy kept under the fingerprint fp, 0 when there is
\* none; hostSocket is the socket id of the host, 0 when null; countdown is
\* timeLeft of the running _readyCountdownInterval, Null when that is null;
\* destroyed says that the room has been deleted from gameRooms.
NewGameRoom(mode) ==
    [mode |-> mode, hostSocket |-> 0, players |-> {},
     disconnectedPlayers |-> [fp \in Devices |-> 0],
     restartVotes |-> {}, readyPlayers |-> {}, gameStarted |-> FALSE,
     serverGame |-> FALSE, countdown |-> Null, destroyed |-> FALSE]

\* gameRooms is empty
NoRoom == NewGameRoom("none")

\* The sockets: nextSid is the id of the next connection, open the ids that
\* are connected, dev[sid] the device behind sid (0: a host screen).  A
\* device keeps its fingerprint, which is modelled by its number.
NoNet == [nextSid |-> 1, open |-> {}, dev |-> [sid \in Sids |-> 0]]

InitAt(w) ==
    /\ game = w.g
    /\ timers = w.t
    /\ intervals = w.iv
    /\ hist = w.h
    /\ room = NoRoom
    /\ net = NoNet

(***************************************************************************)
(* SpecGame: one player holds the left side and shoots across wave 6       *)
(***************************************************************************)
GameAmmo == {1, 30}
GameTypes == {"regular", "bomber"}
GameTicks ==
    [stepP : {TRUE}, stepZ : {FALSE}, stepB : {TRUE}, stepBoss : {TRUE},
     ammoDrop : {FALSE}, healthDrop : {FALSE}, near : {{}}, dc : {4}]

InitGame ==
    \E a \in GameAmmo :
        InitAt(MidMatch(6, <<[ammo |-> a, points |-> 1000, hp |-> PLAYER_MAX_HP,
                               weapon |-> "pistol", firing |-> TRUE]>>))

NextGame ==
    \/ Tick(GameTicks, TRUE, CANVAS_W, MaxZombies)
    \/ FireGameTimer({80, 1254}, GameTypes, 6, MaxZombies)
    \/ AdvanceTick

SpecGame == InitGame /\ [][NextGame]_vars

StartWavesPending == Cardinality({k \in 1..Len(timers) : timers[k].kind = "startWave"})

\* C1: between two executions of startWave the wave counter is incremented
\* at most once and at most one startWave is pending, however many kill
\* paths ask for the advance.
C1_WaveAdvancesOnce ==
    /\ hist.advances <= 1
    /\ StartWavesPending <= 1
    /\ game.waveAdvancing => StartWavesPending = 1

\* Two kill paths have asked for the advance of the same wave (the bullet
\* that kills the last bomber and the bomber's explosion).
C1_AskedTwice ==
    /\ hist.asked = 2
    /\ hist.advances = 1
    /\ game.wave = 7
    /\ game.waveAdvancing

\* C8: the ammo of every player is unlimited or a number that is not
\* negative, and no bullet leaves an empty magazine.
C8_AmmoNeverNegative ==
    /\ \A i \in Slots : game.players[i].ammo = Infinity \/ game.players[i].ammo >= 0
    /\ ~hist.firedEmpty

\* The trigger is held on an empty magazine, the cooldown has run out and
\* tick() has fired nothing.
C8_DryTrigger ==
    /\ game.players[1].firing
    /\ game.players[1].ammo = 0
    /\ game.players[1].fireCooldown = 0
    /\ game.bullets = <<>>
    /\ intervals.ran = 1

(***************************************************************************)
(* SpecBoss: one player with a ray gun meets wave 9, where every zombie is *)
(* a bomber, and the octagon of wave 10                                    *)
(***************************************************************************)
BossTypes == {"bomber"}

\* The storage index of the first corner that still stands
Standing(b) ==
    IF b = NoBoss \/ \A i \in 1..Len(b.parts) : b.parts[i].hp = 0 THEN 0
    ELSE (CHOOSE i \in 1..Len(b.parts) :
             b.parts[i].hp > 0 /\ \A j \in 1..(i - 1) : b.parts[j].hp = 0) - 1

\* A bullet that comes within reach of the octagon meets its first standing
\* corner, or none.
BossTicks ==
    [stepP : {TRUE}, stepZ : {FALSE}, stepB : {TRUE}, stepBoss : {TRUE},
     ammoDrop : {FALSE}, healthDrop : {FALSE}, near : {{}, {Standing(game.boss)}}, dc : {4}]

InitBoss ==
    InitAt(MidMatch(9, <<[ammo |-> 20, points |-> 1000, hp |-> PLAYER_MAX_HP,
                           weapon |-> "raygun", firing |-> TRUE]>>))

NextBoss ==
    \/ Tick(BossTicks, TRUE, CANVAS_W, MaxZombies)
    \/ FireGameTimer({1254}, BossTypes, 11, MaxZombies)
    \/ AdvanceTick

SpecBoss == InitBoss /\ [][NextBoss]_vars

\* C2: the wave counter is only incremented while there is no zombie and no
\* boss, on every path that advances the wave.
C2_AdvanceOnlyWhenCleared == ~hist.advancedDirty

(***************************************************************************)
(* SpecParts: one player with a thundergun meets the diamond of wave 20    *)
(* and the fractal of wave 30                                              *)
(***************************************************************************)
PartsWaves == {20, 30}
PartsTicks ==
    [stepP : {TRUE}, stepZ : {FALSE}, stepB : {TRUE}, stepBoss : {TRUE},
     ammoDrop : {FALSE}, healthDrop : {FALSE}, near : {{i} : i \in 0..MaxPart}, dc : {4}]

InitParts ==
    \E wv \in PartsWaves :
        InitAt(MidMatch(wv, <<[ammo |-> 8, points |-> 1000, hp |-> PLAYER_MAX_HP,
                                weapon |-> "thundergun", firing |-> TRUE]>>))

NextParts ==
    \/ Tick(PartsTicks, TRUE, CANVAS_W, MaxZombies)
    \/ FireGameTimer({1254}, {"regular"}, 30, MaxZombies)
    \/ AdvanceTick

SpecParts == InitParts /\ [][NextParts]_vars

\* The shards of the split diamond, or the pieces of the fractal
SubParts(b) ==
    IF b = NoBoss THEN <<>>
    ELSE IF b.type = "diamond" /\ b.split THEN b.shards
    ELSE IF b.type = "fractal" THEN b.pieces
    ELSE <<>>

\* C3: for the split diamond and the fractal, every alive sub-part has a hit
\* point, every hit point carries the storage index of an alive sub-part, and
\* damage to a hit point lowers the hp of that sub-part and of no other.
C3_HitPointIndexIsStable ==
    LET parts == SubParts(game.boss)
        pts == GetBossHitPoints(game)
    IN parts # <<>> =>
          /\ \A j \in 1..Len(parts) :
                parts[j].alive => \E k \in 1..Len(pts) : pts[k].idx = j - 1
          /\ \A k \in 1..Len(pts) :
                LET j == pts[k].idx + 1
                    after == SubParts(DamageBossHitPoint(game, pts[k], 1).boss)
                IN /\ j \in 1..Len(parts)
                   /\ parts[j].alive
                   /\ parts[j].x = pts[k].x
                   /\ after[j].hp = Max(0, parts[j].hp - 1)
                   /\ \A i \in 1..Len(parts) : i # j => after[i] = parts[i]

\* The split diamond is down to shards whose storage index is above that of
\* a destroyed one.
C3_LaterShardOutlivesEarlier ==
    /\ game.boss # NoBoss
    /\ game.boss.type = "diamond"
    /\ game.boss.split
    /\ \E i, j \in 1..Len(game.boss.shards) :
          i < j /\ ~game.boss.shards[i].alive /\ game.boss.shards[j].alive

(***************************************************************************)
(* SpecEcon: a lone player walks and shops in the pause before wave 5 or   *)
(* wave 6, or lies dead in wave 4; restarts are voted                      *)
(***************************************************************************)
EconPoints == {400, 1350}
EconHp == {600, PLAYER_MAX_HP}
EconTicks ==
    [stepP : BOOLEAN, stepZ : {FALSE}, stepB : {TRUE}, stepBoss : {TRUE},
     ammoDrop : {FALSE}, healthDrop : {FALSE}, near : {{}}, dc : {4}]
EconInputs == [angle : {Null, 0, 180}, fire : {FALSE}, melee : {FALSE}]

Shopper(pts, hp) ==
    [ammo |-> 30, points |-> pts, hp |-> hp, weapon |-> "pistol", firing |-> FALSE]

\* The moment _advanceWave() has moved the match to wave wv
Pause(wv, pts, hp) ==
    LET w == MidMatch(wv, <<Shopper(pts, hp)>>)
    IN [w EXCEPT !.t = SetTimeout(<<>>, "startWave", WAVE_DELAY, TRUE)]

\* Wave 4 after its last zombie has spawned: the zombie has killed the
\* player and the game is over.
Fallen(pts) ==
    LET w == MidMatch(4, <<Shopper(pts, 0)>>)
    IN [w EXCEPT !.g = [SpawnZombie(w.g, 80, "regular") EXCEPT
                           !.gameOver = TRUE, !.waveAdvancing = FALSE,
                           !.waveTotal = WaveQuota(4, 1), !.waveKilled = 4],
                 !.t = <<>>,
                 !.h = [NoHist EXCEPT !.gameOverSent = 1]]

\* _bossKill() has healed the player and paid the bonus before wave 6.
InitEcon ==
    \/ \E pts \in EconPoints, hp \in EconHp : InitAt(Pause(5, pts, hp))
    \/ InitAt(Pause(6, 1350, PLAYER_MAX_HP))
    \/ \E pts \in EconPoints : InitAt(Fallen(pts))

NextEcon ==
    \/ Tick(EconTicks, FALSE, 667, MaxZombies)
    \/ FireGameTimer({1254}, {"regular"}, 4, MaxZombies)
    \/ AdvanceLeap
    \/ Input({1}, EconInputs)
    \/ BoxRequest({1}, {"shotgun"})
    \/ VendingRequest({1})
    \/ RestartVoted

SpecEcon == InitEcon /\ [][NextEcon]_vars

\* C5: after restart() no timer that was set before it runs.
C5_NoTimerSurvivesRestart == ~hist.staleRan

\* C9: a purchase that goes through takes exactly its price off the buyer's
\* points (MYSTERY_BOX_COST at the box, the vendingCost of that moment at the
\* vending machine), and no player's points are ever negative.
C9_PurchaseChargesThePrice ==
    /\ \A i \in Slots : game.players[i].points >= 0
    /\ hist.request.changed => hist.request.paid = hist.request.cost
    /\ hist.request.kind = "box" => hist.request.cost = MYSTERY_BOX_COST
    /\ hist.request.kind = "vending" =>
          hist.request.cost >= VENDING_BASE_COST
          /\ (hist.request.cost - VENDING_BASE_COST) % VENDING_COST_STEP = 0

\* The vending machine has sold a second heal, at the raised price.
C9_SecondHealCostsMore ==
    /\ hist.request.kind = "vending"
    /\ hist.request.changed
    /\ hist.request.cost = VENDING_BASE_COST + VENDING_COST_STEP
    /\ hist.request.paid = VENDING_BASE_COST + VENDING_COST_STEP
    /\ game.vendingCost = VENDING_BASE_COST + 2 * VENDING_COST_STEP

\* The request the history holds asked for something the buyer could not have
RequestInvalid ==
    \/ ~hist.request.afford
    \/ ~hist.request.near
    \/ ~hist.request.alive
    \/ ~hist.request.present
    \/ hist.request.kind = "vending" /\ ~hist.request.hurt

\* C10: a box or vending request made with too few points, out of range, by
\* a dead player, at full hp or without a vending machine changes nothing
\* and sets no box respawn timer.
C10_InvalidRequestIsNoOp ==
    hist.request.kind # "none" /\ RequestInvalid =>
        ~hist.request.changed /\ hist.request.respawns = 0 /\ hist.request.paid = 0

\* A player who stands at the box with too few points has asked for a weapon
\* and nothing has happened.
C10_BoxRefusedForPoints ==
    /\ hist.request.kind = "box"
    /\ hist.request.alive /\ hist.request.near /\ hist.request.present
    /\ ~hist.request.afford
    /\ ~hist.request.changed
    /\ timers = <<>>

\* C12: ammo is unlimited exactly during boss waves.  isBossWave is set by
\* the startWave() of a boss wave and reset by that of a normal wave; a
\* player who was connected when the boss wave started has its ammo saved.
C12_UnlimitedExactlyInBossWaves ==
    /\ game.isBossWave =>
          \A i \in Slots : game.players[i].savedAmmo # Undefined
                              => game.players[i].ammo = Infinity
    /\ ~game.isBossWave => \A i \in Slots : game.players[i].ammo # Infinity

(***************************************************************************)
(* GameRoom                                                                *)
(***************************************************************************)
\* What a handler of the room works on: the room r and the world w
RoomWorld(r, w) == [r |-> r, w |-> w]

\* isSlotOccupied(slot) without the loop over disconnectedPlayers
IsSlotOccupied_NoReserved(r, slot) ==
    \E p \in r.players : p.slotNumber = slot

\* isSlotOccupied(slot) without the loop over this.players
IsSlotOccupied_OnlyReserved(r, slot) ==
    \E fp \in Devices : r.disconnectedPlayers[fp] = slot

\* isSlotOccupied(slot)
IsSlotOccupied(r, slot) ==
    \/ \E p \in r.players : p.slotNumber = slot
    \/ \E fp \in Devices : r.disconnectedPlayers[fp] = slot

\* findAvailableSlot()
FindAvailableSlot(r) ==
    IF \E i \in Slots : ~IsSlotOccupied(r, i)
    THEN CHOOSE i \in Slots :
            ~IsSlotOccupied(r, i) /\ \A j \in 1..(i - 1) : IsSlotOccupied(r, j)
    ELSE Null

\* this.players.set(socket.id, pd)
SetPlayer(players, pd) == {p \in players : p.socketId # pd.socketId} \cup {pd}

\* if(this.serverGame) this.serverGame.players[slot-1].connected = c
SetConnected(rw, slot, c) ==
    IF rw.r.serverGame THEN [rw EXCEPT !.w.g.players[slot].connected = c] ELSE rw

\* reconnectPlayer(socket, deviceFingerprint).  dp is the copy that line 587
\* made before line 592 stored the timer handle in the original, so
\* dp.gracePeriodTimeout is undefined and line 577 clears no timer.
ReconnectPlayer(rw, sid, fp) ==
    LET slot == rw.r.disconnectedPlayers[fp]
        pd == [socketId |-> sid, slotNumber |-> slot, deviceFingerprint |-> fp]
    IN IF slot = 0 THEN rw
       ELSE SetConnected([rw EXCEPT !.r.players = SetPlayer(@, pd),
                                    !.r.disconnectedPlayers[fp] = 0], slot, TRUE)

\* addPlayer(socket, deviceFingerprint) with a fingerprint that is not null
AddPlayer(rw, sid, fp) ==
    LET r == rw.r
        known == {p \in r.players : p.deviceFingerprint = fp}
        slot == FindAvailableSlot(r)
    IN IF r.disconnectedPlayers[fp] # 0 THEN ReconnectPlayer(rw, sid, fp)
       ELSE IF r.gameStarted /\ known # {}
       THEN LET p == CHOOSE q \in known : TRUE
            IN SetConnected([rw EXCEPT !.r.players =
                                SetPlayer(@ \ {p}, [p EXCEPT !.socketId = sid])],
                            p.slotNumber, TRUE)
       ELSE IF slot = Null THEN [rw EXCEPT !.w.h.refused = @ \cup {sid}]
       ELSE SetConnected([rw EXCEPT !.r.players = SetPlayer(@,
                              [socketId |-> sid, slotNumber |-> slot,
                               deviceFingerprint |-> fp])], slot, TRUE)

\* clearInterval(this._readyCountdownInterval)
ClearCountdown(t) == SelectSeq(t, LAMBDA e : e.kind # "countdown")

\* handleDisconnect(socketId).  The closure of the grace timer holds the
\* player, of which it uses the fingerprint.
HandleDisconnect(rw, sid) ==
    LET r == rw.r
        found == {p \in r.players : p.socketId = sid}
    IN IF found = {} THEN rw
       ELSE LET player == CHOOSE p \in found : TRUE
                slot == player.slotNumber
                fp == player.deviceFingerprint
                cancel == ~r.gameStarted /\ r.countdown # Null
                r1 == [r EXCEPT !.disconnectedPlayers[fp] = slot,
                                !.players = @ \ {player},
                                !.restartVotes = @ \ {slot},
                                !.readyPlayers = @ \ {slot},
                                !.countdown = IF cancel THEN Null ELSE @]
                t1 == IF cancel THEN ClearCountdown(rw.w.t) ELSE rw.w.t
                rw1 == SetConnected([rw EXCEPT !.r = r1, !.w.t = t1], slot, FALSE)
            IN [rw1 EXCEPT
                   !.w.t = SetTimeoutArg(@, "grace", GRACE_PERIOD_MS, FALSE, fp),
                   !.w.h.grace[fp] =
                       [slot |-> slot, points |-> rw.w.g.players[slot].points,
                        weapon |-> rw.w.g.players[slot].currentWeapon]]

\* The callback of a grace timer (line 592)
GraceExpired(rw, fp) == [rw EXCEPT !.r.disconnectedPlayers[fp] = 0]

\* _startReadyCountdown(): the interval is a timer that its callback sets
\* again as long as the interval is not cleared
StartReadyCountdown(rw) ==
    [rw EXCEPT !.r.countdown = READY_COUNTDOWN,
               !.w.t = SetTimeout(ClearCountdown(@), "countdown", COUNTDOWN_PERIOD, FALSE)]

\* handleReady(socketId)
HandleReady(rw, sid) ==
    LET r == rw.r
        found == {p \in r.players : p.socketId = sid}
    IN IF found = {} \/ r.gameStarted THEN rw
       ELSE LET player == CHOOSE p \in found : TRUE
                rw1 == [rw EXCEPT !.r.readyPlayers = @ \cup {player.slotNumber}]
            IN IF Cardinality(rw1.r.readyPlayers) >= Cardinality(r.players)
                  /\ Cardinality(r.players) >= 1
               THEN StartReadyCountdown(rw1)
               ELSE rw1

\* The loop of line 622 over this.players
RECURSIVE ConnectAll(_, _)
ConnectAll(g, slots) ==
    IF slots = {} THEN g
    ELSE LET i == CHOOSE k \in slots : TRUE
         IN ConnectAll([g EXCEPT !.players[i].connected = TRUE], slots \ {i})

\* The callback of _readyCountdownInterval (lines 618-625); the timer that
\* ran has been taken off the list
CountdownTick(rw, bx, vx) ==
    LET r == rw.r
    IN IF Cardinality(r.readyPlayers) < Cardinality(r.players)
       THEN [rw EXCEPT !.r.countdown = Null]
       ELSE IF r.countdown - 1 > 0
       THEN [rw EXCEPT !.r.countdown = @ - 1,
                       !.w.t = SetTimeout(@, "countdown", COUNTDOWN_PERIOD, FALSE)]
       ELSE LET rw1 == [rw EXCEPT !.r.countdown = Null, !.r.gameStarted = TRUE]
            IN IF r.mode = "remote"
               THEN LET g1 == [ConnectAll(rw1.w.g, {p.slotNumber : p \in r.players})
                                  EXCEPT !.gameStarted = TRUE]
                    IN [rw1 EXCEPT !.r.serverGame = TRUE,
                                   !.w = Start([rw1.w EXCEPT !.g = g1], bx, vx)]
               ELSE rw1

\* handleRestartVote(socketId)
HandleRestartVote(rw, sid, bx, vx) ==
    LET r == rw.r
        found == {p \in r.players : p.socketId = sid}
    IN IF found = {} THEN rw
       ELSE LET player == CHOOSE p \in found : TRUE
                votes == r.restartVotes \cup {player.slotNumber}
            IN IF Cardinality(votes) >= Cardinality(r.players)
               THEN LET rw1 == [rw EXCEPT !.r.restartVotes = {}, !.r.readyPlayers = {},
                                          !.r.gameStarted = FALSE]
                    IN IF r.mode = "remote" /\ r.serverGame
                       THEN [rw1 EXCEPT !.w = Restart(rw.w, bx, vx)]
                       ELSE rw1
               ELSE [rw EXCEPT !.r.restartVotes = votes]

\* destroy(), and gameRooms.delete(code) of line 689.  No copy in
\* disconnectedPlayers has a gracePeriodTimeout and no player a
\* heartbeatInterval (startHeartbeat is never called): no timer is cleared.
Destroy(rw) ==
    LET w1 == IF rw.r.serverGame THEN Stop(rw.w) ELSE rw.w
    IN [rw EXCEPT !.w = w1, !.r.players = {},
                  !.r.disconnectedPlayers = [fp \in Devices |-> 0],
                  !.r.destroyed = TRUE]

(***************************************************************************)
(* The socket handlers                                                     *)
(***************************************************************************)
RoomNow == RoomWorld(room, Now)

RoomBecomes(rw) == room' = rw.r /\ Becomes(rw.w)

\* gameRooms.get(d.roomCode) finds the room
RoomOpen == room.mode # "none" /\ ~room.destroyed

\* A socket connects for the device d (0: a host screen); no more than
\* last sockets are opened in all
Connected(d, last) ==
    /\ net.nextSid <= last
    /\ d # 0 => \A sid \in net.open : net.dev[sid] # d
    /\ net' = [nextSid |-> net.nextSid + 1, open |-> net.open \cup {net.nextSid},
               dev |-> [net.dev EXCEPT ![net.nextSid] = d]]

\* 'create-room' of a new socket
CreateRoom ==
    /\ Running
    /\ room = NoRoom
    /\ Connected(0, MaxSockets)
    /\ room' = [NewGameRoom("local") EXCEPT !.hostSocket = net.nextSid]
    /\ UNCHANGED <<game, timers, intervals, hist>>

\* 'create-remote-room' of a new socket: the fingerprint is socket.id, which
\* the device keeps
CreateRemoteRoom(devs) ==
    /\ Running
    /\ room = NoRoom
    /\ \E d \in devs :
          /\ Connected(d, MaxSockets)
          /\ RoomBecomes(AddPlayer(
                RoomWorld([NewGameRoom("remote") EXCEPT !.serverGame = TRUE],
                          [Now EXCEPT !.g = NewServerGame]),
                net.nextSid, d))

\* The grace timer of the latest disconnect of fp is pending and not yet due
InGrace(t, fp) ==
    LET ks == {k \in 1..Len(t) : t[k].kind = "grace" /\ t[k].arg = fp}
    IN ks # {} /\ t[CHOOSE k \in ks : \A j \in ks : j <= k].due > 0

\* What the history keeps of a join
Rejoined(rw, sid, fp) ==
    LET before == hist.grace[fp]
        mine == {p \in rw.r.players : p.socketId = sid}
    IN [within |-> before.slot # 0 /\ InGrace(timers, fp),
        same |-> \E p \in mine :
                    /\ p.slotNumber = before.slot
                    /\ rw.r.serverGame =>
                          /\ rw.w.g.players[p.slotNumber].connected
                          /\ rw.w.g.players[p.slotNumber].points = before.points
                          /\ rw.w.g.players[p.slotNumber].currentWeapon = before.weapon]

\* 'join-room' of a new socket of a device of devs
JoinRoom(devs, last) ==
    /\ Running
    /\ RoomOpen
    /\ \E d \in devs :
          /\ Connected(d, last)
          /\ LET rw == AddPlayer(RoomNow, net.nextSid, d)
             IN RoomBecomes([rw EXCEPT !.w.h.rejoin = Rejoined(rw, net.nextSid, d)])

\* 'player-ready'
PlayerReady ==
    /\ Running
    /\ RoomOpen
    /\ \E sid \in net.open : RoomBecomes(HandleReady(RoomNow, sid))
    /\ UNCHANGED net

\* 'restart-vote' and 'restart-vote-remote'
RestartVote(bxs, vxs) ==
    /\ Running
    /\ RoomOpen
    /\ \E sid \in net.open, bx \in bxs, vx \in vxs :
          LET rw == HandleRestartVote(RoomNow, sid, bx, vx)
          IN rw.w.iv.active <= MaxIntervals /\ RoomBecomes(rw)
    /\ UNCHANGED net

\* 'disconnect' of a socket
Disconnect ==
    /\ Running
    /\ \E sid \in net.open :
          /\ net' = [net EXCEPT !.open = @ \ {sid}]
          /\ IF ~RoomOpen THEN UNCHANGED <<game, timers, intervals, room, hist>>
             ELSE IF \E p \in room.players : p.socketId = sid
             THEN RoomBecomes(HandleDisconnect(RoomNow, sid))
             ELSE IF room.hostSocket = sid
             THEN RoomBecomes(Destroy(RoomNow))
             ELSE UNCHANGED <<game, timers, intervals, room, hist>>

RoomTimerKinds == {"grace", "countdown"}

\* A due timer of the room fires
FireRoomTimer(bxs, vxs) ==
    LET k == DueIndex(timers)
        rw == [RoomNow EXCEPT !.w.t = RemoveAt(timers, k),
                              !.w.h.afterDestroy = @ \/ room.destroyed]
    IN /\ Running
       /\ k # 0
       /\ timers[k].kind \in RoomTimerKinds
       /\ IF timers[k].kind = "grace"
          THEN RoomBecomes(GraceExpired(rw, timers[k].arg))
          ELSE \E bx \in bxs, vx \in vxs :
                  LET rw2 == CountdownTick(rw, bx, vx)
                  IN rw2.w.iv.active <= MaxIntervals /\ RoomBecomes(rw2)
       /\ UNCHANGED net

\* Time passes by one of ds, no timer being due before
Wait(ds) == \E d \in ds : Advance(d)

(***************************************************************************)
(* SpecRoom: the members of one room, local or remote, from an empty       *)
(* server: two devices join, leave and come back, the host leaves          *)
(***************************************************************************)
RoomWaits == {GRACE_PERIOD_MS \div 2}

InitRoom ==
    InitAt(World(NewServerGame, <<>>, [active |-> 0, ran |-> 0], NoHist))

NextRoom ==
    \/ CreateRoom
    \/ CreateRemoteRoom({1})
    \/ JoinRoom(1..RoomDevices, RoomSockets)
    \/ Disconnect
    \/ FireRoomTimer({140}, {667})
    \/ Wait(RoomWaits)
    \/ AdvanceLeap

SpecRoom == InitRoom /\ [][NextRoom]_vars

(***************************************************************************)
(* SpecLobby: a remote room from an empty server: its creator and a second *)
(* device ready up, vote restarts and leave, the match starts              *)
(***************************************************************************)
LobbySockets == 2
LobbyTicks ==
    [stepP : {FALSE}, stepZ : {FALSE}, stepB : {TRUE}, stepBoss : {TRUE},
     ammoDrop : {FALSE}, healthDrop : {FALSE}, near : {{}}, dc : {4}]

NextLobby ==
    \/ CreateRemoteRoom({1})
    \/ JoinRoom(1..RoomDevices, LobbySockets)
    \/ PlayerReady
    \/ RestartVote({140}, {667})
    \/ Disconnect
    \/ FireRoomTimer({140}, {667})
    \/ FireGameTimer({667}, {"regular"}, 0, MaxHorde)
    \/ Tick(LobbyTicks, FALSE, CANVAS_W, MaxHorde)
    \/ AdvanceLeap

SpecLobby == InitRoom /\ [][NextLobby]_vars

\* C4: at most one tick timer is active per ServerGame at every moment.
C4_OneTickTimer == intervals.active <= 1

\* C6: after GameRoom.destroy nothing of the room runs: no timer callback
\* of the room is executed after teardown.
C6_NothingRunsAfterDestroy == ~hist.afterDestroy

\* C7: a player who joins again with the same fingerprint less than
\* GRACE_PERIOD_MS after their latest disconnect has the slot of that
\* disconnect, connected, with its points and weapon.
C7_RejoinInGraceKeepsSlot == hist.rejoin.within => hist.rejoin.same

(***************************************************************************)
(* SpecMelee: a player out of ammo starts to swing, at some moment, at the *)
(* runners and bombers of wave 7, which stand one step to the right, where *)
(* the second player of the match lies downed or stands disconnected       *)
(***************************************************************************)
MeleeTypes == {"runner", "bomber"}
MeleeTicks ==
    [stepP : {FALSE}, stepZ : {FALSE}, stepB : {TRUE}, stepBoss : {TRUE},
     ammoDrop : {FALSE}, healthDrop : {FALSE}, near : {{}}, dc : {4}]
MeleeInputs == [angle : {Null}, fire : {FALSE}, melee : {TRUE}]

MeleeHp == {400, PLAYER_MAX_HP}
MateHp == {0, PLAYER_MAX_HP}

\* The pause before wave 7 of two players.  The first is out of ammo; the
\* second has walked to x = 140, where it lies downed (hp2 = 0) or where
\* its socket has disconnected.
MeleeTeam(hp1, hp2) ==
    LET w == MidMatch(7, <<[ammo |-> 0, points |-> 0, hp |-> hp1,
                            weapon |-> "pistol", firing |-> FALSE],
                           [ammo |-> 30, points |-> 0, hp |-> hp2,
                            weapon |-> "pistol", firing |-> FALSE]>>)
    IN [w EXCEPT !.g.players[2].x = 140, !.g.players[2].connected = (hp2 = 0)]

InitMelee == \E hp1 \in MeleeHp, hp2 \in MateHp : InitAt(MeleeTeam(hp1, hp2))

NextMelee ==
    \/ Input({1}, MeleeInputs)
    \/ Tick(MeleeTicks, TRUE, CANVAS_W, MaxZombies)
    \/ FireGameTimer({140}, MeleeTypes, 7, MaxZombies)
    \/ AdvanceTick

SpecMelee == InitMelee /\ [][NextMelee]_vars

\* C11: tick() and the timer callbacks of the simulation never throw: no
\* loop dereferences a zombie or a bullet that is not there, also after a
\* chain explosion has removed zombies under the melee or the bullet loop.
C11_NoCallbackThrows == ~hist.error

\* The zombies of the arena that the swing of player i reaches
InSwing(g, i) ==
    {k \in 1..Len(g.zombies) :
        /\ Dist(g.zombies[k].x, g.players[i].x) <= MELEE_RANGE + g.zombies[k].size \div 2
        /\ AngleOff(g.zombies[k].x - g.players[i].x, g.players[i].angle) * 2 <= MELEE_ARC}

\* Player 1 is about to swing in the coming run of tick(), and the one
\* zombie of the arena stands in the swing with hp 1.
LoneSwing ==
    /\ game.gameStarted /\ ~game.gameOver
    /\ game.players[1].alive /\ game.players[1].connected
    /\ game.players[1].meleeing /\ game.players[1].ammo = 0
    /\ game.players[1].meleeCooldown <= 1
    /\ Len(game.zombies) = 1
    /\ game.zombies[1].hp = 1
    /\ InSwing(game, 1) = {1}

\* A run of tick() by the one interval
TickRan == intervals'.ran = intervals.ran + 1

\* C15: a player out of ammo who swings at a zombie with hp 1 in range and
\* arc kills it in that tick: the zombie is gone, the player's points have
\* risen by the zombie's points and the kill counter by exactly 1.
C15_MeleeKillCountsOnce ==
    [][LoneSwing /\ TickRan =>
          /\ game'.zombies = <<>>
          /\ game'.players[1].points = game.players[1].points + game.zombies[1].points
          /\ game'.waveKilled = game.waveKilled + 1]_vars

\* Some player dies in this step and no connected player is alive after it
LastDeath ==
    /\ \E i \in Slots : game.players[i].alive /\ ~game'.players[i].alive
    /\ \A i \in Slots : ~(game'.players[i].alive /\ game'.players[i].connected)

\* C16: when a player dies and no connected player is alive, gameOver is
\* true at the end of that tick, and 'game-over' is broadcast once per match.
C16_DeathEndsTheMatch ==
    [][/\ hist'.gameOverSent <= 1
       /\ LastDeath => game'.gameOver /\ hist'.gameOverSent = 1]_vars

\* The blast of a bomber has killed the first player while the second one,
\* alive, is disconnected: the match is over and was reported once.
C16_FallenWithMateAway ==
    /\ game.gameOver
    /\ hist.gameOverSent = 1
    /\ ~game.players[1].alive
    /\ game.players[2].alive /\ ~game.players[2].connected

\* C17: a tick changes nothing of a player whose connected flag is false:
\* not the position, the hp, the ammo, the points or the weapon.
C17_TickSparesDisconnected ==
    [][TickRan =>
          \A i \in Slots : ~game.players[i].connected =>
              /\ game'.players[i].x = game.players[i].x
              /\ game'.players[i].hp = game.players[i].hp
              /\ game'.players[i].ammo = game.players[i].ammo
              /\ game'.players[i].points = game.players[i].points
              /\ game'.players[i].currentWeapon = game.players[i].currentWeapon]_vars

(***************************************************************************)
(* SpecChain: the bombers of wave 7 come to stand in a row, each 90 px to  *)
(* the right of the last one, within the blast of its neighbour; a player  *)
(* out of ammo swings at the first                                         *)
(***************************************************************************)
ChainStart == 140
ChainGap == 90
MaxRow == 7          \* bombers standing in the row at once

InitChain ==
    InitAt(MidMatch(7, <<[ammo |-> 0, points |-> 0, hp |-> PLAYER_MAX_HP,
                          weapon |-> "pistol", firing |-> FALSE]>>))

NextChain ==
    \/ Input({1}, MeleeInputs)
    \/ Tick(MeleeTicks, TRUE, CANVAS_W, MaxRow)
    \/ FireGameTimer({ChainStart + ChainGap * Len(game.zombies)}, {"bomber"}, 7, MaxRow)
    \/ AdvanceTick

SpecChain == InitChain /\ [][NextChain]_vars

\* C14: no blast is performed at a chain depth greater than
\* BOMBER_CHAIN_DEPTH, also when bombers stand within the blast of the
\* deepest level (every explosion is evaluated to its end).
C14_ChainDepthBounded == hist.blastDepth <= BOMBER_CHAIN_DEPTH

\* A chain through a row of seven has run to depth BOMBER_CHAIN_DEPTH: the
\* deepest blast has killed the fifth bomber, the sixth and the seventh
\* were not blasted, and the seventh still stands (the swing's own splice
\* has taken the sixth).
C14_ChainCutShort ==
    /\ hist.blastDepth = BOMBER_CHAIN_DEPTH
    /\ Len(game.zombies) = 1
    /\ game.zombies[1].type = "bomber"
    /\ game.zombies[1].x = ChainStart + 6 * ChainGap

(***************************************************************************)
(* SpecTeam: a remote room in a match: the player of device 2 is down at   *)
(* x = 140, the player of device 1 walks between x = 80 and x = 140; the   *)
(* sockets of both close and the devices join again.  The last zombie of   *)
(* the wave stands at the far side.                                        *)
(***************************************************************************)
TeamReach == 140
TeamTicks ==
    [stepP : {TRUE}, stepZ : {FALSE}, stepB : {TRUE}, stepBoss : {TRUE},
     ammoDrop : {FALSE}, healthDrop : {FALSE}, near : {{}}, dc : {4}]
TeamInputs == [angle : {Null, 0, 180}, fire : {FALSE}, melee : {FALSE}]
TeamWaits == {REVIVE_TIME \div 2}
TeamSockets == 3

InitTeam ==
    LET up == [NewPlayer(1) EXCEPT !.connected = TRUE]
        down == [NewPlayer(2) EXCEPT !.connected = TRUE, !.x = TeamReach,
                                    !.hp = 0, !.alive = FALSE]
        quota == WaveQuota(1, 2)
    IN /\ game = SpawnZombie(
                    [NewServerGame EXCEPT
                        !.players = [i \in Slots |-> IF i = 1 THEN up
                                                     ELSE IF i = 2 THEN down
                                                     ELSE NewPlayer(i)],
                        !.gameStarted = TRUE, !.tickInterval = TRUE,
                        !.waveTotal = quota, !.waveKilled = quota - 1,
                        !.mysteryBox = 140, !.vendingMachine = 667],
                    1254, "regular")
       /\ timers = <<>>
       /\ intervals = [active |-> 1, ran |-> 0]
       /\ hist = NoHist
       /\ room = [NewGameRoom("remote") EXCEPT
                     !.serverGame = TRUE, !.gameStarted = TRUE,
                     !.players = {[socketId |-> d, slotNumber |-> d,
                                   deviceFingerprint |-> d] : d \in {1, 2}}]
       /\ net = [nextSid |-> 3, open |-> {1, 2},
                 dev |-> [sid \in Sids |-> IF sid <= 2 THEN sid ELSE 0]]

\* A run of tick() now would change nothing but the broadcast counter
Settled ==
    \A in \in TeamTicks :
       [TickBody(Now, in).g EXCEPT !.broadcastTick = 0]
          = [game EXCEPT !.broadcastTick = 0]

\* A revive attempt is in progress
Reviving == \E r \in Slots : game.reviveMap[r].targetSlot # 0

\* Time passes while the runs of tick() change nothing: by one of TeamWaits
\* during a revive attempt, or to the next timer, and no further than the
\* end of the attempt
TeamWait ==
    /\ Settled
    /\ \E d \in (IF Reviving THEN TeamWaits ELSE {})
                 \cup (IF timers = <<>> THEN {} ELSE {NextDue}) :
          /\ \A r \in Slots : game.reviveMap[r].targetSlot # 0
                                 => game.reviveMap[r].elapsed + d <= REVIVE_TIME
          /\ Advance(d)

NextTeam ==
    \/ Input({1}, TeamInputs)
    \/ Tick(TeamTicks, FALSE, TeamReach, MaxZombies)
    \/ Disconnect
    \/ JoinRoom(1..RoomDevices, TeamSockets)
    \/ FireRoomTimer({140}, {667})
    \/ TeamWait

SpecTeam == InitTeam /\ [][NextTeam]_vars

\* The reviver r is alive, connected and within REVIVE_RADIUS of the target
\* of its attempt
Tracking(g, r) ==
    LET t == g.reviveMap[r].targetSlot
    IN /\ t # 0
       /\ g.players[r].alive
       /\ g.players[r].connected
       /\ ~g.players[t].alive
       /\ g.players[t].connected
       /\ Dist(g.players[r].x, g.players[t].x) <= REVIVE_RADIUS

\* C13: a downed connected player becomes alive only with hp 50 and when a
\* living connected reviver within REVIVE_RADIUS has tracked them for
\* REVIVE_TIME; a reviver tracks at most one target; and once the reviver
\* of an attempt has left the radius, died or disconnected, the attempt is
\* not taken up again: coming back starts a timer from zero.
C13_ReviveNeedsSustainedProximity ==
    [][\A t \in Slots :
          /\ ~game.players[t].alive /\ game'.players[t].alive =>
                /\ game.players[t].connected
                /\ game'.players[t].hp = REVIVE_HP
                /\ \E r \in Slots :
                      /\ Tracking(game, r)
                      /\ game.reviveMap[r].targetSlot = t
                      /\ game.reviveMap[r].elapsed >= REVIVE_TIME
          /\ game.reviveMap[t].targetSlot # 0 /\ ~Tracking(game, t) =>
                \/ ~Tracking(game', t)
                \/ game'.reviveMap[t].elapsed = 0]_vars

(***************************************************************************)
(* SpecEntry: one wounded player with a ray gun meets the triangle of wave *)
(* 5: the player walks from the left side to the centre, where the boss    *)
(* comes down, and shoots; only the first tip comes within reach of a      *)
(* bullet                                                                  *)
(***************************************************************************)
EntryReach == 667
EntryTicks ==
    [stepP : {TRUE}, stepZ : {FALSE}, stepB : {TRUE}, stepBoss : BOOLEAN,
     ammoDrop : {FALSE}, healthDrop : {FALSE}, near : {{}, {0}}, dc : {4}]
EntryInputs == [angle : {Null, 0}, fire : {TRUE}, melee : {FALSE}]

InitEntry ==
    InitAt(MidMatch(5, <<[ammo |-> 20, points |-> 0, hp |-> 2 * BOSS_TOUCH_DAMAGE,
                           weapon |-> "raygun", firing |-> FALSE]>>))

NextEntry ==
    \/ Input({1}, EntryInputs)
    \/ Tick(EntryTicks, FALSE, EntryReach, MaxZombies)
    \/ FireGameTimer({1254}, {"regular"}, 5, MaxZombies)
    \/ AdvanceLeap

SpecEntry == InitEntry /\ [][NextEntry]_vars

\* The spawnBoss timer startWave() has set is pending
BossEntering == \E k \in 1..Len(timers) : timers[k].kind = "spawnBoss"

MaxCycle == 7
CycleReach == 80
CycleTicks ==
    [stepP : {TRUE}, stepZ : {FALSE}, stepB : {TRUE}, stepBoss : BOOLEAN,
     ammoDrop : {FALSE}, healthDrop : {FALSE}, near : {{}}, dc : {4}]
CycleInputs == [angle : {Null}, fire : {TRUE}, melee : {FALSE}]

InitCycle ==
    \E k \in 1..MaxCycle :
        InitAt(MidMatch(5 * k, <<[ammo |-> 20, points |-> 0, hp |-> BOSS_TOUCH_DAMAGE,
                                   weapon |-> "raygun", firing |-> FALSE]>>))

NextCycle ==
    \/ Input({1}, CycleInputs)
    \/ Tick(CycleTicks, FALSE, CycleReach, MaxZombies)
    \/ FireGameTimer({1254}, {"regular"}, 5 * MaxCycle, MaxZombies)
    \/ AdvanceLeap

SpecCycle == InitCycle /\ [][NextCycle]_vars

\* The order of the boss types (BOSS_TYPES of part_000, lines 115-118)
CycleOrder == <<"triangle", "octagon", "pentagon", "diamond", "spiral", "fractal">>

\* C19: the boss that spawns in the boss wave 5k is the ((k - 1) mod 6)-th
\* of triangle, octagon, pentagon, diamond, spiral, fractal, counted from 0.
C19_BossTypeRoundRobin ==
    [][game.boss = NoBoss /\ game'.boss # NoBoss =>
          /\ game'.isBossWave
          /\ game'.boss.type = CycleOrder[((game'.wave \div 5 - 1) % 6) + 1]]_vars

\* The boss of wave 35 is a triangle again
C19_SecondTriangle ==
    /\ game.wave = 35
    /\ game.boss # NoBoss
    /\ game.boss.type = "triangle"

(***************************************************************************)
(* SpecParts: the defeat of the diamond and of the fractal                 *)
(***************************************************************************)
\* Every sub-part of the boss b is destroyed
Depleted(b) ==
    IF b.type = "diamond"
    THEN /\ b.coreHp = 0
         /\ b.split
         /\ Len(b.shards) = 4
         /\ \A k \in 1..Len(b.shards) : b.shards[k].hp = 0 /\ ~b.shards[k].alive
    ELSE IF b.type = "fractal"
    THEN \A k \in 1..Len(b.pieces) : b.pieces[k].hp = 0 /\ ~b.pieces[k].alive
    ELSE \A k \in 1..Len(b.parts) : b.parts[k].hp = 0

\* The number of pending callbacks that clear the boss
Clears(t) == Cardinality({k \in 1..Len(t) : t[k].kind = "bossClear"})

Restarted ==
    \E bx \in BoxXs :
       \E vx \in VendingXs(SpawnMysteryBox(game, bx)) :
          LET w2 == Restart(Now, bx, vx)
          IN game' = w2.g /\ timers' = w2.t /\ hist' = w2.h

\* C21: after restart() the wave is 1, there is no zombie, bullet, pickup,
\* revive attempt or boss, the game is not over, the vending cost is the
\* base cost, and every player is alive with full hp, the starting ammo, no
\* points and the pistol at its spawn position, with its slot and connected
\* flag as before.
C21_RestartResetsTheMatch ==
    [][Restarted =>
          /\ game'.wave = 1
          /\ game'.zombies = <<>> /\ game'.bullets = <<>>
          /\ game'.ammoPacks = <<>> /\ game'.healthPacks = <<>>
          /\ \A i \in Slots : game'.reviveMap[i].targetSlot = 0
          /\ game'.boss = NoBoss
          /\ ~game'.gameOver
          /\ game'.vendingCost = VENDING_BASE_COST
          /\ \A i \in Slots :
                /\ game'.players[i].alive
                /\ game'.players[i].hp = 1000
                /\ game'.players[i].ammo = 30
                /\ game'.players[i].points = 0
                /\ game'.players[i].currentWeapon = "pistol"
                /\ game'.players[i].x = PLAYER_SPAWNS[i]
                /\ game'.players[i].slot = game.players[i].slot
                /\ game'.players[i].connected = game.players[i].connected]_vars

\* A match that was lost has been restarted: the fallen player stands again
\* in wave 1 and the timers of the old match are void
C21_FallenStandsAgain ==
    /\ game.wave = 1
    /\ game.gameStarted /\ ~game.gameOver
    /\ game.players[1].alive /\ game.players[1].hp = PLAYER_MAX_HP
    /\ game.players[1].points = 0
    /\ game.zombies = <<>>
    /\ hist.gameOverSent = 0
    /\ game.waveTotal = WaveQuota(1, 1)

(***************************************************************************)
(* SpecShop: a hurt player with points stands where the vending machine    *)
(* stands, in the pause before wave 5 (a boss wave) or before wave 6;      *)
(* the waves start, heals are bought, restarts are voted                   *)
(***************************************************************************)
ShopWaves == {5, 6}
ShopTicks ==
    [stepP : {FALSE}, stepZ : {FALSE}, stepB : {TRUE}, stepBoss : {TRUE},
     ammoDrop : {FALSE}, healthDrop : {FALSE}, near : {{}}, dc : {4}]

InitShop ==
    \E wv \in ShopWaves :
       InitAt([Pause(wv, 1350, 600) EXCEPT !.g.players[1].x = 667])

NextShop ==
    \/ Tick(ShopTicks, FALSE, CANVAS_W, MaxZombies)
    \/ FireGameTimer({1254}, {"regular"}, 6, MaxZombies)
    \/ AdvanceLeap
    \/ VendingRequest({1})
    \/ RestartVoted

SpecShop == InitShop /\ [][NextShop]_vars

\* The step is a vending request of slot that went through
VendingUsed(slot) ==
    /\ game' = HandleVendingMachine(game, slot)
    /\ game' # game

\* C22: the vending cost is VENDING_BASE_COST in a new game; a vending use
\* that goes through raises it by exactly VENDING_COST_STEP; nothing else
\* changes it (no wave start, tick or timer) but restart(), which sets it
\* back to the base cost.
C22_VendingCostSteps ==
    [][/\ NewServerGame.vendingCost = VENDING_BASE_COST
       /\ \A slot \in Slots :
             VendingUsed(slot) => game'.vendingCost = game.vendingCost + VENDING_COST_STEP
       /\ game'.vendingCost # game.vendingCost =>
             \/ (\E slot \in Slots : VendingUsed(slot))
                   /\ game'.vendingCost = game.vendingCost + VENDING_COST_STEP
             \/ Restarted /\ game'.vendingCost = VENDING_BASE_COST]_vars

\* The boss wave has started after a heal was bought: the raised cost stands
C22_RaisedCostOutlastsWaveStart ==
    /\ game.wave = 5
    /\ game.isBossWave
    /\ game.vendingCost = VENDING_BASE_COST + VENDING_COST_STEP

\* C23: while isBossWave is true there is no vending machine, and a vending
\* request made then changes nothing.
C23_NoVendingInBossWave ==
    [][/\ game.isBossWave => game.vendingMachine = Null
       /\ game'.isBossWave => game'.vendingMachine = Null
       /\ game.isBossWave => \A slot \in Slots : ~VendingUsed(slot)]_vars

\* The boss wave has started where a vending machine stood, with a hurt
\* player who can pay next to it, and a request has been turned down
C23_MachineGoneForTheBoss ==
    /\ game.wave = 5
    /\ game.isBossWave
    /\ game.vendingMachine = Null
    /\ game.players[1].x = 667
    /\ game.players[1].hp < game.players[1].maxHp
    /\ game.players[1].points >= game.vendingCost
    /\ hist.request.kind = "vending"
    /\ ~hist.request.present
    /\ ~hist.request.changed

(***************************************************************************)
(* SpecMelee: what handleInput changes                                     *)
(***************************************************************************)
AnyInputs == [angle : {Null, 0, 180}, fire : BOOLEAN, melee : BOOLEAN]

\* C24: handleInput(slot, input) changes nothing when slot is not one of
\* 1..4 or the player is dead; otherwise it sets that player's velocity,
\* angle, firing and meleeing from the input and leaves everything else
\* (positions, ammo, points, the other players, bullets, zombies, packs,
\* the wave) as it is.
C24_InputTouchesOnlyControls ==
    \A slot \in 0..(MAX_PLAYERS + 1), input \in AnyInputs :
       LET g2 == HandleInput(game, slot, input)
       IN IF slot \notin Slots \/ ~game.players[slot].alive
          THEN g2 = game
          ELSE /\ [g2 EXCEPT !.players[slot].vx = game.players[slot].vx,
                             !.players[slot].angle = game.players[slot].angle,
                             !.players[slot].firing = game.players[slot].firing,
                             !.players[slot].meleeing = game.players[slot].meleeing] = game
               /\ g2.players[slot].firing = input.fire
               /\ g2.players[slot].meleeing = input.melee
               /\ g2.players[slot].vx = (IF input.angle = Null THEN 0
                                        ELSE IF input.angle = 0 THEN 1 ELSE -1)
               /\ input.angle # Null => g2.players[slot].angle = input.angle
               /\ input.angle = Null => g2.players[slot].angle = game.players[slot].angle

\* The player who was told to swing has fallen; its flags are as they were
C24_FallenKeepsItsFlags ==
    /\ ~game.players[1].alive
    /\ game.players[1].connected
    /\ game.players[1].meleeing

(***************************************************************************)
(* SpecFull: the lobby of a remote room with one slot left: its three      *)
(* members and two more devices join, leave and come back                  *)
(***************************************************************************)
Early == 1..(MAX_PLAYERS - 1)

InitFull ==
    /\ game = [NewServerGame EXCEPT
                  !.players = [i \in Slots |->
                                  [NewPlayer(i) EXCEPT !.connected = i \in Early]]]
    /\ timers = <<>>
    /\ intervals = [active |-> 0, ran |-> 0]
    /\ hist = NoHist
    /\ room = [NewGameRoom("remote") EXCEPT
                  !.serverGame = TRUE,
                  !.players = {[socketId |-> d, slotNumber |-> d,
                                deviceFingerprint |-> d] : d \in Early}]
    /\ net = [nextSid |-> MAX_PLAYERS, open |-> Early,
              dev |-> [sid \in Sids |-> IF sid \in Early THEN sid ELSE 0]]

NextFull ==
    \/ JoinRoom(Devices, MaxSockets)
    \/ Disconnect
    \/ FireRoomTimer({140}, {667})
    \/ AdvanceLeap

SpecFull == InitFull /\ [][NextFull]_vars

\* Every slot is held by a connected player or reserved for one who left
RoomFull(r) ==
    \A slot \in Slots :
       \/ \E p \in r.players : p.slotNumber = slot
       \/ \E fp \in Devices : r.disconnectedPlayers[fp] = slot

\* Neither a player of the room nor a reservation carries the fingerprint fp
NewFingerprint(r, fp) ==
    /\ r.disconnectedPlayers[fp] = 0
    /\ \A p \in r.players : p.deviceFingerprint # fp

\* This step is 'join-room' of a new socket of the device d
Joins(d) == net'.nextSid = net.nextSid + 1 /\ net'.dev[net.nextSid] = d

\* C25: when every slot is held by a connected player or reserved for a
\* disconnected one, the join of a new fingerprint is refused: 'join-failed'
\* goes to the requesting socket and to no other, and players,
\* disconnectedPlayers, readyPlayers and the connected flags of the
\* simulation stay as they were.
C25_FullRoomRefusesNewcomer ==
    [][\A d \in Devices :
          (RoomOpen /\ Joins(d) /\ RoomFull(room) /\ NewFingerprint(room, d)) =>
             /\ hist'.refused = hist.refused \cup {net.nextSid}
             /\ net.nextSid \notin hist.refused
             /\ room'.players = room.players
             /\ room'.disconnectedPlayers = room.disconnectedPlayers
             /\ room'.readyPlayers = room.readyPlayers
             /\ \A i \in Slots : game'.players[i].connected = game.players[i].connected
             /\ room' = room /\ game' = game /\ timers' = timers]_vars

\* A newcomer has been refused by a room of three players and one
\* reservation
C25_RefusedWithASlotReserved ==
    /\ hist.refused # {}
    /\ RoomFull(room)
    /\ Cardinality(room.players) = MAX_PLAYERS - 1
    /\ \E fp \in Devices : room.disconnectedPlayers[fp] # 0 /\ InGrace(timers, fp)
    /\ \A p \in room.players : p.socketId < MaxSockets
    /\ hist.refused = {MaxSockets}

(***************************************************************************)
(* SpecBox: a lone player stands at the mystery box in the pause before    *)
(* wave 5 or, the boss of wave 5 killed, before wave 6 and buys what the   *)
(* box rolls                                                               *)
(***************************************************************************)
Rolls == {0, 9, 10, 39, 40, 99}
Picks == {0, 1}
Rolled == {RollRandomWeapon(roll, pick) : roll \in Rolls, pick \in Picks}

InitBox ==
    \E wv \in ShopWaves :
       InitAt([Pause(wv, MYSTERY_BOX_COST, PLAYER_MAX_HP) EXCEPT !.g.players[1].x = 140])

NextBox ==
    \/ Tick(ShopTicks, FALSE, CANVAS_W, MaxZombies)
    \/ FireGameTimer({1254}, {"regular"}, 6, MaxZombies)
    \/ AdvanceLeap
    \/ BoxRequest({1}, Rolled)
    \/ RestartVoted

SpecBox == InitBox /\ [][NextBox]_vars

\* This step is a purchase of slot at the mystery box that went through
BoxBought(slot) ==
    /\ CanBuyBox(game, slot)
    /\ \E weapon \in Rolled :
          LET w2 == HandleMysteryBox(Now, slot, weapon)
          IN game' = w2.g /\ timers' = w2.t

\* This step runs the callback of a due boxRespawn timer
BoxTimerFires ==
    LET k == DueIndex(timers)
    IN k # 0 /\ timers[k].kind = "boxRespawn" /\ timers[k].due = 0
       /\ timers' = RemoveAt(timers, k)

\* C26: a purchase at the mystery box that goes through gives the buyer a
\* weapon of a rarity tier, never the pistol, and sets the buyer's ammo to
\* that weapon's capacity; the box stays where it is until the timer of
\* 1000 ms set by the purchase fires, which draws it a position again.
C26_BoxGivesTieredWeaponAndMoves ==
    /\ Rolled = BoxWeapons
    /\ [][/\ \A slot \in Slots :
                BoxBought(slot) =>
                   LET p == game'.players[slot]
                   IN /\ WEAPONS[p.currentWeapon].rarity \in {"common", "rare", "legendary"}
                      /\ p.currentWeapon # "pistol"
                      /\ p.ammo = WEAPONS[p.currentWeapon].ammoCapacity
                      /\ game'.mysteryBox = game.mysteryBox
                      /\ Len(timers') = Len(timers) + 1
                      /\ timers'[Len(timers')].kind = "boxRespawn"
                      /\ timers'[Len(timers')].due = BOX_RESPAWN_DELAY
          /\ BoxTimerFires => game'.mysteryBox \in BoxXs
          /\ game'.mysteryBox # game.mysteryBox => BoxTimerFires \/ Restarted]_vars

\* After the boss the unlimited ammo has given way to the magazine of the
\* thundergun, and the box has moved away from the buyer
C26_ThundergunBoughtBoxMoved ==
    /\ game.isBossWave
    /\ game.players[1].currentWeapon = "thundergun"
    /\ game.players[1].ammo = WEAPONS.thundergun.ammoCapacity
    /\ game.players[1].points = 0
    /\ game.mysteryBox = 667
    /\ \A k \in 1..Len(timers) : timers[k].kind # "boxRespawn"

\* C27: a zombie leaves the world only by dying (its hp at 0, or caught in
\* the blast of an exploding bomber), and every zombie that leaves raises
\* waveKilled by exactly 1, whatever the kill path and also when the dying
\* zombie is a bomber: a tick lowers the number of zombies by what it adds
\* to the kill counter.
C27_EachRemovalCountsOnce ==
    [][TickRan =>
          /\ Len(game'.zombies) <= Len(game.zombies)
          /\ game'.waveKilled - game.waveKilled =
                Len(game.zombies) - Len(game'.zombies)]_vars

(***************************************************************************)
(* SpecVolley: one player on the left side fires a ray gun at the triangle *)
(* of wave 5; a bullet needs one tick or more from one sample point to the *)
(* next, so that several bullets are on their way at once                  *)
(***************************************************************************)
VolleyTicks ==
    [stepP : {FALSE}, stepZ : {FALSE}, stepB : BOOLEAN, stepBoss : {TRUE},
     ammoDrop : {FALSE}, healthDrop : {FALSE}, near : {{}, {0}}, dc : {4}]

InitVolley ==
    InitAt(MidMatch(5, <<[ammo |-> 20, points |-> 0, hp |-> 2 * BOSS_TOUCH_DAMAGE,
                           weapon |-> "raygun", firing |-> TRUE]>>))

NextVolley ==
    \/ Tick(VolleyTicks, TRUE, CANVAS_W, MaxZombies)
    \/ FireGameTimer({1254}, {"regular"}, 5, MaxZombies)
    \/ AdvanceTick

SpecVolley == InitVolley /\ [][NextVolley]_vars

\* C28: a bullet is removed only when it leaves the arena or when it itself
\* hits a zombie or a hit point of the boss: the hit of one bullet takes no
\* other bullet out of the arena.
C28_HitRemovesOnlyItsBullet == ~hist.bystander

\* The spawnZombie timers that are pending in t
SpawnsPending(t) == {k \in 1..Len(t) : t[k].kind = "spawnZombie"}

\* This step runs startWave() for a normal wave
StartsNormalWave ==
    LET k == DueIndex(timers)
    IN k # 0 /\ timers[k].kind = "startWave" /\ game.wave % 5 # 0
       /\ timers' # timers

\* C29: a normal wave w started with c connected players (c at least 1) has
\* the quota ceil((3 + 2(w - 1)) * c / 2); startWave sets one spawn timer
\* for each zombie of the quota, 500 ms apart, and the wave counter moves on
\* only when every one of them has spawned and has been removed.
C29_QuotaSpawnedBeforeAdvance ==
    [][/\ StartsNormalWave =>
             LET c == IF ConnectedCount(game) < 1 THEN 1 ELSE ConnectedCount(game)
                 fresh == SpawnsPending(timers') 
             IN /\ 2 * game'.waveTotal >= (3 + 2 * (game.wave - 1)) * c
                /\ 2 * game'.waveTotal < (3 + 2 * (game.wave - 1)) * c + 2
                /\ Cardinality(fresh) = game'.waveTotal
                /\ {timers'[k].due : k \in fresh} =
                      {i * SPAWN_GAP : i \in 0..(game'.waveTotal - 1)}
       /\ game'.wave = game.wave + 1 =>
             /\ SpawnsPending(timers') = {}
             /\ game'.zombies = <<>>]_vars

(***************************************************************************)
(* SpecSpiral: one player on the left side fires a thundergun at the       *)
(* spiral of wave 25; only the first arm comes within reach of a bullet    *)
(***************************************************************************)
SpiralTicks ==
    [stepP : {FALSE}, stepZ : {FALSE}, stepB : {TRUE}, stepBoss : BOOLEAN,
     ammoDrop : {FALSE}, healthDrop : {FALSE}, near : {{}, {0}}, dc : {4}]

InitSpiral ==
    InitAt(MidMatch(25, <<[ammo |-> 8, points |-> 0, hp |-> PLAYER_MAX_HP,
                            weapon |-> "thundergun", firing |-> TRUE]>>))

NextSpiral ==
    \/ Tick(SpiralTicks, TRUE, CANVAS_W, MaxZombies)
    \/ FireGameTimer({1254}, {"regular"}, 25, MaxZombies)
    \/ AdvanceTick

SpecSpiral == InitSpiral /\ [][NextSpiral]_vars

\* The projectiles of the boss b that no tick has moved yet
Fresh(b) ==
    LET full == IF b.type = "octagon" THEN 120 ELSE 100
    IN {k \in 1..Len(b.bossBullets) : b.bossBullets[k].life = full}

\* The sub-parts of the boss b that survive
Surviving(b) == {k \in 1..Len(b.parts) : b.parts[k].hp > 0}

\* The tick that starts in this state fires a volley of the boss
VolleyDue ==
    /\ game.boss # NoBoss
    /\ ~game.boss.dropping
    /\ \/ game.boss.type = "octagon" /\ game.boss.shootTimer + 1 >= OCTAGON_SHOOT_INTERVAL
       \/ game.boss.type = "spiral" /\ game.boss.shootTimer + 1 >= SPIRAL_SHOOT_INTERVAL

\* C30: a volley of the octagon (every shootInterval ticks) and of the
\* spiral (every 40 ticks) holds one projectile for each sub-part that
\* survives (hp > 0) and none for a destroyed one; no other tick adds a
\* projectile.
C30_VolleyOnePerSurvivingPart ==
    [][(TickRan /\ game'.boss # NoBoss /\ game'.boss.type \in {"octagon", "spiral"}) =>
          IF VolleyDue
          THEN Cardinality(Fresh(game'.boss)) = Cardinality(Surviving(game'.boss))
          ELSE Fresh(game'.boss) = {}]_vars

\* This step runs the callback of a due grace timer set for the device fp
GraceFires(fp) ==
    LET k == DueIndex(timers)
    IN k # 0 /\ timers[k].kind = "grace" /\ timers[k].arg = fp
       /\ timers' = RemoveAt(timers, k)

\* C31: a reconnect cancels the grace timer of the disconnect before it: a
\* grace timer that runs finds its player still away (so that
\* 'player-removed' names no slot of a connected player) and is the timer of
\* that player's latest disconnect (so that it removes no reservation made
\* by a later one).
C31_ReconnectCancelsGraceTimer ==
    [][\A fp \in Devices :
          GraceFires(fp) =>
             /\ \A p \in room.players : p.deviceFingerprint # fp
             /\ \A k \in 1..Len(timers) :
                   timers[k].kind = "grace" /\ timers[k].arg = fp =>
                      k <= DueIndex(timers)]_vars

\* The hp of every player of g is within 0..maxHp, and a player is alive
\* exactly when the hp is above 0
HpSound(g) ==
    \A i \in Slots :
       /\ g.players[i].hp >= 0
       /\ g.players[i].hp <= g.players[i].maxHp
       /\ g.players[i].alive <=> g.players[i].hp > 0

\* C32: every player has 0 <= hp <= maxHp and is alive exactly when hp > 0;
\* the damage that fells a player leaves hp at 0, and a player who is down
\* is not damaged: hp stays 0 until a revive or a restart raises the player.
C32_HpWithinBoundsAliveIffPositive ==
    /\ HpSound(game)
    /\ [][/\ HpSound(game')
          /\ \A i \in Slots :
                /\ game.players[i].alive /\ ~game'.players[i].alive =>
                      game'.players[i].hp = 0
                /\ ~game.players[i].alive /\ ~game'.players[i].alive =>
                      game'.players[i].hp = game.players[i].hp]_vars

\* The last connected player has been felled: hp 0, not alive, and the match
\* is over
C32_FelledAtZero ==
    /\ game.gameOver
    /\ hist.gameOverSent = 1
    /\ game.players[1].connected
    /\ ~game.players[1].alive
    /\ game.players[1].hp = 0

(***************************************************************************)
(* SpecAward: a remote room in a match of two: the player of device 1      *)
(* stands at the left side and holds fire, the player of device 2 stands   *)
(* at the centre and does not shoot; the last two zombies of the wave      *)
(* stand next to the shooter and at the far side.  The sockets close at    *)
(* any moment.                                                             *)
(***************************************************************************)
AwardTicks ==
    [stepP : {FALSE}, stepZ : {FALSE}, stepB : {TRUE}, stepBoss : {TRUE},
     ammoDrop : {FALSE}, healthDrop : {FALSE}, near : {{}}, dc : {4}]

InitAward ==
    LET shooter == [NewPlayer(1) EXCEPT !.connected = TRUE, !.firing = TRUE]
        mate == [NewPlayer(2) EXCEPT !.connected = TRUE, !.x = 667]
        quota == WaveQuota(1, 2)
    IN /\ game = SpawnZombie(SpawnZombie(
                    [NewServerGame EXCEPT
                        !.players = [i \in Slots |-> IF i = 1 THEN shooter
                                                     ELSE IF i = 2 THEN mate
                                                     ELSE NewPlayer(i)],
                        !.gameStarted = TRUE, !.tickInterval = TRUE,
                        !.waveTotal = quota, !.waveKilled = quota - 2,
                        !.mysteryBox = 140, !.vendingMachine = 667],
                    1254, "runner"), 140, "regular")
       /\ timers = <<>>
       /\ intervals = [active |-> 1, ran |-> 0]
       /\ hist = NoHist
       /\ room = [NewGameRoom("remote") EXCEPT
                     !.serverGame = TRUE, !.gameStarted = TRUE,
                     !.players = {[socketId |-> d, slotNumber |-> d,
                                   deviceFingerprint |-> d] : d \in {1, 2}}]
       /\ net = [nextSid |-> 3, open |-> {1, 2},
                 dev |-> [sid \in Sids |-> IF sid <= 2 THEN sid ELSE 0]]

NextAward ==
    \/ Tick(AwardTicks, FALSE, CANVAS_W, MaxZombies)
    \/ Disconnect

SpecAward == InitAward /\ [][NextAward]_vars

\* A step of the tick: the room and its sockets stay as they are
AwardTick == room' = room /\ net' = net

\* The positions of the zombies of zs, from index k on, those of K left out
RECURSIVE KeptXs(_, _, _)
KeptXs(zs, K, k) ==
    IF k > Len(zs) THEN <<>>
    ELSE (IF k \in K THEN <<>> ELSE <<zs[k].x>>) \o KeptXs(zs, K, k + 1)

\* What the deaths of the zombies of K, from index k on, pay to player i
RECURSIVE PaidTo(_, _, _, _)
PaidTo(g, K, i, k) ==
    IF k > Len(g.zombies) THEN 0
    ELSE (IF k \in K /\ Nearest(g, g.zombies[k].x) = i THEN g.zombies[k].points ELSE 0)
         + PaidTo(g, K, i, k + 1)

\* C33: when a bullet kills a zombie, the zombie's points go to the living
\* connected player nearest to the zombie, who need not be the shooter, and
\* to nobody when no connected player is alive; the points of no other
\* player change.
C33_KillPaysNearestLivingConnected ==
    [][AwardTick =>
          \E K \in SUBSET (1..Len(game.zombies)) :
             /\ KeptXs(game.zombies, K, 1) = KeptXs(game'.zombies, {}, 1)
             /\ \A i \in Slots :
                   game'.players[i].points =
                      game.players[i].points + PaidTo(game, K, i, 1)]_vars

\* The shooter's bullet has killed the runner at the far side, and the
\* points went to the mate at the centre
C33_MatePaidForShootersKill ==
    /\ game.players[1].points = ZOMBIE_TYPES.regular.points
    /\ game.players[2].points = ZOMBIE_TYPES.runner.points
    /\ game.players[1].connected /\ game.players[2].connected

\* Both sockets have closed while a bullet was on its way to the runner:
\* its death has paid nobody
C33_NobodyPaid ==
    /\ game.waveKilled = game.waveTotal
    /\ game.players[1].points = ZOMBIE_TYPES.regular.points
    /\ game.players[2].points = 0
    /\ \A i \in Slots : ~game.players[i].connected

(***************************************************************************)
(* SpecFractal: the fractal of wave 30 lands at the centre and stands      *)
(* there, and the player shoots its pieces with the thundergun from the    *)
(* left side; a bullet reaches every piece, or passes them all             *)
(***************************************************************************)
FractalTicks(step) ==
    [stepP : {FALSE}, stepZ : {FALSE}, stepB : {TRUE}, stepBoss : {step},
     ammoDrop : {FALSE}, healthDrop : {FALSE}, near : {{}, 0..12}, dc : {4}]

InitFractal ==
    InitAt(MidMatch(30, <<[ammo |-> 8, points |-> 0, hp |-> PLAYER_MAX_HP,
                           weapon |-> "thundergun", firing |-> TRUE]>>))

Landing == game.boss # NoBoss /\ game.boss.dropping

NextFractal ==
    \/ Landing /\ Tick(FractalTicks(TRUE), TRUE, CANVAS_W, MaxZombies)
    \/ ~Landing /\ Tick(FractalTicks(FALSE), TRUE, CANVAS_W, MaxZombies)
    \/ FireGameTimer({1254}, {"regular"}, 30, MaxZombies)
    \/ AdvanceTick

SpecFractal == InitFractal /\ [][NextFractal]_vars

IsFractal(g) == g.boss # NoBoss /\ g.boss.type = "fractal"

\* The pieces of index 1..n that were alive in g and are dead in g2, and
\* were larger than the split threshold
SplitIn(g, g2) ==
    {k \in 1..Len(g.boss.pieces) :
        /\ g.boss.pieces[k].alive /\ ~g2.boss.pieces[k].alive
        /\ g.boss.pieces[k].radius > FRACTAL_SPLIT_THRESHOLD}

\* C34: the pieces of the fractal grow only by the split of a dying piece
\* larger than the split threshold into splitCount smaller children; the
\* radii are 95, 52 and 29, so that at most 13 pieces are ever created;
\* the pieces keep their storage index, and once every piece is dead the
\* boss is marked dead.
C34_FractalSplitsFinitely ==
    /\ IsFractal(game) =>
          /\ Len(game.boss.pieces) <= 13
          /\ \A k \in 1..Len(game.boss.pieces) :
                game.boss.pieces[k].radius \in {95, 52, 29}
          /\ (\A k \in 1..Len(game.boss.pieces) : ~game.boss.pieces[k].alive)
                => game.boss.dead
    /\ [][IsFractal(game) /\ IsFractal(game') =>
             LET old == game.boss.pieces
                 new == game'.boss.pieces
             IN /\ Len(new) = Len(old)
                      + FRACTAL_SPLIT_COUNT * Cardinality(SplitIn(game, game'))
                /\ \A k \in 1..Len(old) :
                      /\ new[k].radius = old[k].radius
                      /\ new[k].maxHp = old[k].maxHp
                      /\ ~old[k].alive => new[k] = old[k]
                /\ \A k \in (Len(old) + 1)..Len(new) :
                      \E q \in SplitIn(game, game') :
                         /\ new[k].radius < old[q].radius
                         /\ new[k].radius = (old[q].radius * 55 + 50) \div 100]_vars

\* The fractal is dead with the thirteen pieces of its three generations,
\* all dead
C34_ThirteenPiecesAllDead ==
    /\ IsFractal(game) /\ game.boss.dead
    /\ Len(game.boss.pieces) = 13
    /\ \A k \in 1..13 : ~game.boss.pieces[k].alive
    /\ {game.boss.pieces[k].radius : k \in 1..13} = {95, 52, 29}

(***************************************************************************)
(* SpecResend: the lobby of a remote room whose clients may send           *)
(* 'join-room' again on the socket that is already in the room             *)
(***************************************************************************)
\* socket.on('join-room') on a socket that has joined before, with the
\* fingerprint of its device
JoinRoomAgain ==
    /\ Running
    /\ RoomOpen
    /\ \E sid \in net.open :
          /\ net.dev[sid] # 0
          /\ RoomBecomes(AddPlayer(RoomNow, sid, net.dev[sid]))
    /\ UNCHANGED net

NextResend ==
    \/ CreateRemoteRoom({1})
    \/ JoinRoom(1..RoomDevices, LobbySockets)
    \/ JoinRoomAgain
    \/ PlayerReady
    \/ Disconnect
    \/ FireRoomTimer({140}, {667})
    \/ AdvanceLeap

SpecResend == InitRoom /\ [][NextResend]_vars

\* Every player of the room is in readyPlayers
AllReady(r) == \A p \in r.players : p.slotNumber \in r.readyPlayers

\* The interval callback of the ready countdown is the timer that is due
CountdownDue ==
    LET k == DueIndex(timers) IN k # 0 /\ timers[k].kind = "countdown"

\* The step is a run of the interval callback of the ready countdown
CountdownRuns ==
    /\ CountdownDue
    /\ ~\E k \in 1..Len(timers') : timers'[k].kind = "countdown" /\ timers'[k].due = 0

MatchStarts == ~room.gameStarted /\ room'.gameStarted

\* C35: the match starts only at the end of a countdown of 5 seconds in
\* which every player of the room was ready at each check, one a second; a
\* player who disconnects during the countdown cancels it, and so does a
\* player who is not ready at a check, and the match does not start.
C35_StartOnlyAfterFullCountdown ==
    [][/\ MatchStarts =>
             /\ CountdownDue /\ room.countdown = 1
             /\ AllReady(room) /\ room.players # {}
             /\ room.mode = "remote" =>
                   /\ game'.gameStarted /\ game'.tickInterval
                   /\ intervals'.active = intervals.active + 1
       /\ room.mode # "none" /\ room'.mode # "none" /\ room'.countdown # room.countdown =>
             \/ room'.countdown = READY_COUNTDOWN /\ AllReady(room')
             \/ /\ room.countdown # Null /\ CountdownDue /\ AllReady(room)
                /\ room'.countdown = IF room.countdown > 1 THEN room.countdown - 1 ELSE Null
             \/ room'.countdown = Null /\ ~room'.gameStarted
       /\ room.mode # "none" /\ room'.mode # "none" /\ ~room.gameStarted
          /\ (\E p \in room.players : \A q \in room'.players : q.socketId # p.socketId) =>
             /\ room'.countdown = Null /\ ~room'.gameStarted
             /\ \A k \in 1..Len(timers') : timers'[k].kind # "countdown"
       /\ room.mode # "none" /\ CountdownRuns /\ ~AllReady(room)
          /\ room'.players = room.players /\ room'.readyPlayers = room.readyPlayers =>
             room'.countdown = Null /\ ~room'.gameStarted]_vars

(***************************************************************************)
(* SpecRevote: the restart votes of a remote room whose clients may send   *)
(* 'join-room' again on the socket that is already in the room             *)
(***************************************************************************)
NextRevote ==
    \/ CreateRemoteRoom({1})
    \/ JoinRoom(1..RoomDevices, LobbySockets)
    \/ JoinRoomAgain
    \/ RestartVote({140}, {667})
    \/ Disconnect
    \/ FireRoomTimer({140}, {667})
    \/ AdvanceLeap

SpecRevote == InitRoom /\ [][NextRevote]_vars

\* The step is the 'restart-vote' of the player p, and it reaches the
\* restart of line 637
VoteRestarts(p) ==
    /\ p.socketId \in net.open /\ net' = net
    /\ Cardinality(room.restartVotes \cup {p.slotNumber}) >= Cardinality(room.players)
    /\ LET rw == HandleRestartVote(RoomNow, p.socketId, 140, 667)
       IN room' = rw.r /\ game' = rw.w.g /\ timers' = rw.w.t

\* C36: a restart by vote happens only when every player in the room has
\* voted since the last restart; the vote of a player who disconnects is
\* withdrawn; the vote set and the ready set are empty right after the
\* restart.
C36_RestartOnlyWhenAllVoted ==
    [][/\ \A p \in room.players :
             VoteRestarts(p) =>
                /\ \A q \in room.players :
                      q.slotNumber \in room.restartVotes \cup {p.slotNumber}
                /\ room'.restartVotes = {} /\ room'.readyPlayers = {}
       /\ \A p \in room.players :
             (room.mode # "none" /\ \A q \in room'.players : q.socketId # p.socketId)
                => p.slotNumber \notin room'.restartVotes]_vars

\* The slots held in the room r: by the players, and by the fingerprints in
\* their grace period
HeldSlots(r) ==
    {p.slotNumber : p \in r.players}
       \cup {r.disconnectedPlayers[fp] : fp \in {d \in Devices : r.disconnectedPlayers[d] # 0}}

\* C37: in every state of the room all slot numbers are within
\* 1..MAX_PLAYERS, and no slot is held by two entries among the players
\* and the disconnected players in their grace period.
C37_SlotsInRangeAndDistinct ==
    room.mode # "none" =>
       /\ HeldSlots(room) \subseteq 1..MAX_PLAYERS
       /\ \A p, q \in room.players : p.slotNumber = q.slotNumber => p = q
       /\ \A fp, fq \in Devices :
             room.disconnectedPlayers[fp] # 0
                /\ room.disconnectedPlayers[fp] = room.disconnectedPlayers[fq] => fp = fq
       /\ \A p \in room.players, fp \in Devices :
             room.disconnectedPlayers[fp] # p.slotNumber

\* The four slots are held, some by players and some by fingerprints in
\* their grace period, and a player has come back to the slot kept for them
C37_AllSlotsHeldAfterReturn ==
    /\ HeldSlots(room) = 1..MAX_PLAYERS
    /\ room.players # {}
    /\ \E fp \in Devices : room.disconnectedPlayers[fp] # 0
    /\ \E p \in room.players : p.socketId # p.slotNumber

\* C38: in a remote room, after every session event, the connected flag of
\* slot s in the simulation is true exactly when an entry of room.players
\* holds slot s.
C38_ConnectedIffEntry ==
    room.mode = "remote" /\ room.serverGame /\ ~room.destroyed =>
       \A s \in Slots :
          game.players[s].connected <=> \E p \in room.players : p.slotNumber = s

\* C39: the transient events pushed to the explosions list during a tick
\* are in the explosions list of a snapshot that is broadcast: the tick
\* that pushed them has sent the snapshot (it has set the broadcast counter
\* back to 0) before the next tick empties the list.
C39_ExplosionsReachASnapshot ==
    game.explosions > 0 => game.broadcastTick = 0

\* C40: in a started match with a connected player, either a connected
\* player is alive or gameOver is true.
C40_NoMatchOfTheDownedOnly ==
    game.gameStarted /\ (\E i \in Slots : game.players[i].connected) =>
       \/ \E i \in Slots : game.players[i].connected /\ game.players[i].alive
       \/ game.gameOver

=============================================================================
